---- MODULE Spec2Model ----
(***************************************************************************)
(* Helios orchestration engine: OrchestratorGraph (run loop, state merge,  *)
(* routing and recovery), AgentNode / BaseAgent.executeWithRetry, and the  *)
(* OrchestratorAgent requests (start, pause, resume) that drive the graph. *)
(***************************************************************************)
EXTENDS Integers, Sequences, FiniteSets, TLC

(***************************************************************************)
(* Bounds of the model                                                     *)
(***************************************************************************)
\* number of start requests (OrchestratorAgent.execute calls) in one behaviour
MaxCalls == 2
\* number of loop iterations (execution-history entries) in one behaviour
MaxHistory == 7
\* number of accepted addAgent / removeAgent calls in one behaviour
MaxRegistryOps == 1
\* number of executeWithRetry calls made on one agent in one behaviour
MaxRetryCalls == 2
\* an operation fails at most this often before it succeeds
MaxOpFails == 5
\* largest maxAttempts argument validateAndCorrect is called with
MaxAttemptsArg == 3
MaxSaves == 4

(***************************************************************************)
(* Program constants                                                       *)
(***************************************************************************)
\* BaseAgent constructor: context.config?.maxRetries || 3
maxRetries == 3
\* BaseAgent constructor: context.config?.retryDelay || 1000
retryDelay == 1000

\* AgentRole values the graph registers and routes between
PROJECT_ANALYZER == "project_analyzer"
TASK_DECOMPOSER == "task_decomposer"
FRONTEND_ENGINEER == "frontend_engineer"
BACKEND_ENGINEER == "backend_engineer"
FULLSTACK_ENGINEER == "fullstack_engineer"
DEVOPS_ENGINEER == "devops_engineer"
QA_ENGINEER == "qa_engineer"
CODE_REVIEWER == "code_reviewer"
DOCUMENTATION_WRITER == "documentation_writer"

Roles ==
  { PROJECT_ANALYZER, TASK_DECOMPOSER, FRONTEND_ENGINEER, BACKEND_ENGINEER,
    FULLSTACK_ENGINEER, DEVOPS_ENGINEER, QA_ENGINEER, CODE_REVIEWER,
    DOCUMENTATION_WRITER }

\* JavaScript null / undefined for a role-valued field
Null == "null"

\* the callers that may invoke OrchestratorAgent.execute / graph.run
Callers == {1, 2}

(***************************************************************************)
(* Project descriptions: a description is a sequence of words; includes()  *)
(* is substring search over the lower-cased text.                          *)
(***************************************************************************)
\* String.prototype.toLowerCase on the words of the vocabulary
ToLowerWord(w) ==
  CASE w = "Fullstack" -> "fullstack"
    [] w = "Full-Stack" -> "full-stack"
    [] w = "Frontend" -> "frontend"
    [] w = "Backend" -> "backend"
    [] w = "Docker" -> "docker"
    [] w = "Build" -> "build"
    [] w = "REST" -> "rest"
    [] OTHER -> w

\* which keywords occur as a substring of a lower-case word
WordIncludes(w, kw) ==
  \/ w = kw
  \/ w = "deployed" /\ kw = "deploy"
  \/ w = "dockerized" /\ kw = "docker"

toLowerCase(d) == [i \in 1..Len(d) |-> ToLowerWord(d[i])]

includes(d, kw) == \E i \in 1..Len(d) : WordIncludes(d[i], kw)

ScenarioADescription == <<"Build", "a", "deployed", "fullstack", "chat", "app">>

PlainDescription == <<"Build", "a", "REST", "api">>

\* the descriptions a project is created with
Descriptions == {ScenarioADescription, PlainDescription}


(***************************************************************************)
(* HeliosSwarmState and partial updates                                    *)
(***************************************************************************)
\* value of one agentStates entry; has = FALSE means the Map has no such key
NoAgentState == [has |-> FALSE, reviewPassed |-> "undefined", issueType |-> "undefined"]
UndefAgentState == [has |-> TRUE, reviewPassed |-> "undefined", issueType |-> "undefined"]
ReviewState(passed, issue) == [has |-> TRUE, reviewPassed |-> passed, issueType |-> issue]

\* the file paths artifacts are stored under, and their contents
ArtifactKeys == {"src/app.ts", "README.md"}
ArtifactValues == {"v1", "v2"}
\* the artifacts Map of a fresh state: no key is present
NoArtifacts == [k \in ArtifactKeys |-> "absent"]

\* the constructor arguments projectId and projectName
ProjectId == "project-1"
ProjectName == "chat"

\* the object literal assigned to this.state by the OrchestratorGraph constructor
\* (handoff_history is undefined, which its readers take as [])
InitialState(desc) ==
  [ projectId |-> ProjectId,
    projectName |-> ProjectName,
    projectDescription |-> desc,
    active_agent |-> Null,
    nextAgent |-> Null,
    completed |-> FALSE,
    messages |-> << >>,
    tasks |-> << >>,
    errors |-> << >>,
    agentStates |-> [r \in Roles |-> NoAgentState],
    artifacts |-> NoArtifacts,
    handoff_history |-> << >>,
    finalOutput |-> << >> ]         \* << >> is undefined, <<summary>> is set

\* the keys a partial update may carry (Object.keys(updates))
UpdateKeys ==
  { "projectId", "projectName", "projectDescription", "active_agent",
    "nextAgent", "completed", "messages", "tasks", "errors", "agentStates",
    "artifacts", "handoff_history" }

\* a partial update with no keys; fields of absent keys are never read
EmptyUpdate ==
  [ keys |-> {},
    projectId |-> "",
    projectName |-> "",
    projectDescription |-> << >>,
    active_agent |-> Null,
    nextAgent |-> Null,
    completed |-> FALSE,
    messages |-> << >>,
    tasks |-> << >>,
    errors |-> << >>,
    agentStates |-> [r \in Roles |-> NoAgentState],
    artifacts |-> NoArtifacts,
    handoff_history |-> << >> ]

\* the nextAgent each case of performRoleSpecificExecution assigns
DefaultNextAgent(role) ==
  CASE role = PROJECT_ANALYZER -> TASK_DECOMPOSER
    [] role = TASK_DECOMPOSER -> BACKEND_ENGINEER
    [] role = FRONTEND_ENGINEER -> QA_ENGINEER
    [] role = BACKEND_ENGINEER -> FRONTEND_ENGINEER
    [] role = FULLSTACK_ENGINEER -> QA_ENGINEER
    [] role = QA_ENGINEER -> CODE_REVIEWER
    [] role = CODE_REVIEWER -> DOCUMENTATION_WRITER
    [] role = DEVOPS_ENGINEER -> QA_ENGINEER
    [] OTHER -> Null

\* AgentNode.performRoleSpecificExecution: a spread copy of the whole state
\* with the role's notice appended to messages and the role's hint set
performRoleSpecificExecution(role, S) ==
  [ keys |-> UpdateKeys,
    projectId |-> S.projectId,
    projectName |-> S.projectName,
    projectDescription |-> S.projectDescription,
    active_agent |-> S.active_agent,
    nextAgent |-> IF role = DOCUMENTATION_WRITER THEN S.nextAgent
                  ELSE DefaultNextAgent(role),
    completed |-> IF role = DOCUMENTATION_WRITER THEN TRUE ELSE S.completed,
    messages |-> Append(S.messages, role),
    tasks |-> S.tasks,
    errors |-> S.errors,
    agentStates |-> S.agentStates,
    artifacts |-> S.artifacts,
    handoff_history |-> S.handoff_history ]

\* OrchestratorGraph.updateState: fold a partial update into the state
updateState(S, P) ==
  [ S EXCEPT
      !.messages = IF "messages" \in P.keys THEN S.messages \o P.messages ELSE @,
      !.tasks = IF "tasks" \in P.keys THEN S.tasks \o P.tasks ELSE @,
      !.errors = IF "errors" \in P.keys THEN S.errors \o P.errors ELSE @,
      !.artifacts =
          IF "artifacts" \in P.keys
          THEN [k \in ArtifactKeys |->
                  IF P.artifacts[k] # "absent" THEN P.artifacts[k] ELSE S.artifacts[k]]
          ELSE @,
      !.handoff_history =
          IF "handoff_history" \in P.keys THEN P.handoff_history ELSE @,
      !.projectId = IF "projectId" \in P.keys THEN P.projectId ELSE @,
      !.projectName = IF "projectName" \in P.keys THEN P.projectName ELSE @,
      !.projectDescription =
          IF "projectDescription" \in P.keys THEN P.projectDescription ELSE @,
      !.active_agent = IF "active_agent" \in P.keys THEN P.active_agent ELSE @,
      !.nextAgent = IF "nextAgent" \in P.keys THEN P.nextAgent ELSE @,
      !.completed = IF "completed" \in P.keys THEN P.completed ELSE @ ]

\* executeAgent, after updateState: agentStates.set(role, updates.agentStates.get(role))
storeAgentState(S, P, role) ==
  IF "agentStates" \in P.keys
  THEN [ S EXCEPT !.agentStates[role] =
           IF P.agentStates[role].has THEN P.agentStates[role] ELSE UndefAgentState ]
  ELSE S

(***************************************************************************)
(* Routing (the Brain)                                                     *)
(***************************************************************************)
\* a requiresFullstack that compares the description as written
requiresFullstackCaseSensitive(S) ==
  LET description == S.projectDescription
  IN  \/ includes(description, "fullstack")
      \/ includes(description, "full-stack")
      \/ (includes(description, "frontend") /\ includes(description, "backend"))

\* OrchestratorGraph.requiresFullstack
requiresFullstack(S) ==
  LET description == toLowerCase(S.projectDescription)
  IN  \/ includes(description, "fullstack")
      \/ includes(description, "full-stack")
      \/ (includes(description, "frontend") /\ includes(description, "backend"))

requiresDevOps(S) ==
  LET description == toLowerCase(S.projectDescription)
  IN  \/ includes(description, "deploy")
      \/ includes(description, "docker")
      \/ includes(description, "kubernetes")
      \/ includes(description, "ci/cd")
      \/ includes(description, "infrastructure")

hasFailedReview(S) == S.agentStates[CODE_REVIEWER].reviewPassed = "false"

determineEngineerForFixes(S) ==
  LET issueType == S.agentStates[CODE_REVIEWER].issueType
  IN  IF issueType = "frontend" THEN FRONTEND_ENGINEER
      ELSE IF issueType = "backend" THEN BACKEND_ENGINEER
      ELSE IF S.agentStates[FULLSTACK_ENGINEER].has THEN FULLSTACK_ENGINEER
      ELSE FRONTEND_ENGINEER

\* a static table whose FrontendEngineer row skips the BackendEngineer
staticRouteFrontendToQA(S) ==
  LET currentAgent == S.active_agent
  IN  CASE currentAgent = PROJECT_ANALYZER ->
             [S EXCEPT !.active_agent = TASK_DECOMPOSER]
        [] currentAgent = TASK_DECOMPOSER ->
             [S EXCEPT !.active_agent =
                IF requiresFullstack(S) THEN FULLSTACK_ENGINEER ELSE BACKEND_ENGINEER]
        [] currentAgent = FRONTEND_ENGINEER ->
             [S EXCEPT !.active_agent = QA_ENGINEER]
        [] currentAgent \in {BACKEND_ENGINEER, FULLSTACK_ENGINEER} ->
             [S EXCEPT !.active_agent =
                IF requiresDevOps(S) THEN DEVOPS_ENGINEER ELSE QA_ENGINEER]
        [] currentAgent = DEVOPS_ENGINEER ->
             [S EXCEPT !.active_agent = QA_ENGINEER]
        [] currentAgent = QA_ENGINEER ->
             [S EXCEPT !.active_agent = CODE_REVIEWER]
        [] currentAgent = CODE_REVIEWER ->
             [S EXCEPT !.active_agent =
                IF hasFailedReview(S) THEN determineEngineerForFixes(S)
                ELSE DOCUMENTATION_WRITER]
        [] OTHER ->
             [S EXCEPT !.completed = TRUE, !.active_agent = Null]

\* the switch of routeToNextAgent: the static table
staticRoute(S) ==
  LET currentAgent == S.active_agent
  IN  CASE currentAgent = PROJECT_ANALYZER ->
             [S EXCEPT !.active_agent = TASK_DECOMPOSER]
        [] currentAgent = TASK_DECOMPOSER ->
             [S EXCEPT !.active_agent =
                IF requiresFullstack(S) THEN FULLSTACK_ENGINEER ELSE BACKEND_ENGINEER]
        [] currentAgent = FRONTEND_ENGINEER ->
             [S EXCEPT !.active_agent = BACKEND_ENGINEER]
        [] currentAgent \in {BACKEND_ENGINEER, FULLSTACK_ENGINEER} ->
             [S EXCEPT !.active_agent =
                IF requiresDevOps(S) THEN DEVOPS_ENGINEER ELSE QA_ENGINEER]
        [] currentAgent = DEVOPS_ENGINEER ->
             [S EXCEPT !.active_agent = QA_ENGINEER]
        [] currentAgent = QA_ENGINEER ->
             [S EXCEPT !.active_agent = CODE_REVIEWER]
        [] currentAgent = CODE_REVIEWER ->
             [S EXCEPT !.active_agent =
                IF hasFailedReview(S) THEN determineEngineerForFixes(S)
                ELSE DOCUMENTATION_WRITER]
        [] OTHER ->
             [S EXCEPT !.completed = TRUE, !.active_agent = Null]

\* a routing step that consults the static table before the override
routeTableFirst(S) ==
  IF S.active_agent \in Roles THEN staticRoute(S)
  ELSE [S EXCEPT !.active_agent = S.nextAgent, !.nextAgent = Null]

\* OrchestratorGraph.routeToNextAgent
routeToNextAgent(S) ==
  IF S.nextAgent # Null
  THEN [S EXCEPT !.active_agent = S.nextAgent, !.nextAgent = Null]
  ELSE staticRoute(S)

(***************************************************************************)
(* Recovery                                                                *)
(***************************************************************************)
\* a getAlternativeAgent that names the FullstackEngineer without looking it
\* up in the agents Map
getAlternativeAgentUnchecked(failedAgent, reg) ==
  CASE failedAgent \in {FRONTEND_ENGINEER, BACKEND_ENGINEER} -> FULLSTACK_ENGINEER
    [] failedAgent = FULLSTACK_ENGINEER -> FRONTEND_ENGINEER
    [] OTHER -> Null

\* OrchestratorGraph.getAlternativeAgent; reg is the agents Map
getAlternativeAgent(failedAgent, reg) ==
  CASE failedAgent \in {FRONTEND_ENGINEER, BACKEND_ENGINEER} ->
         IF reg[FULLSTACK_ENGINEER] # "none" THEN FULLSTACK_ENGINEER ELSE Null
    [] failedAgent = FULLSTACK_ENGINEER -> FRONTEND_ENGINEER
    [] OTHER -> Null

\* a canRecover that also gives up on the error AgentNode.execute rethrows
canRecoverNoExecutionFailure(agent, code, reg) ==
  IF code \in {"MAX_RETRIES_EXCEEDED", "EXECUTION_FAILED"} THEN FALSE
  ELSE getAlternativeAgent(agent, reg) # Null

\* OrchestratorGraph.canRecover; code is the AgentError code of the error
canRecover(agent, code, reg) ==
  IF code = "MAX_RETRIES_EXCEEDED" THEN FALSE
  ELSE getAlternativeAgent(agent, reg) # Null

\* the recovery decision at the end of handleExecutionError
recover(S, agent, code, reg) ==
  IF canRecover(agent, code, reg)
  THEN [S EXCEPT !.active_agent = getAlternativeAgent(agent, reg)]
  ELSE [S EXCEPT !.completed = TRUE, !.active_agent = Null]


(***************************************************************************)
(* Workers                                                                 *)
(***************************************************************************)
\* roles a worker-supplied override or handoff may name
OverrideTargets == {FRONTEND_ENGINEER}

IssueTypes == {"frontend", "backend", "security"}

\* the partial updates a custom execute function (addAgent's agent.execute)
\* may return; the function is supplied by the caller of addAgent
customExecute(role) ==
  { EmptyUpdate }
  \cup { [EmptyUpdate EXCEPT !.keys = {"nextAgent"}, !.nextAgent = t] :
           t \in OverrideTargets }
  \cup { [EmptyUpdate EXCEPT !.keys = {"completed"}, !.completed = TRUE] }
  \cup { [EmptyUpdate EXCEPT !.keys = {"completed", "nextAgent"},
                             !.completed = TRUE, !.nextAgent = t] :
           t \in OverrideTargets }
  \cup { [EmptyUpdate EXCEPT !.keys = {"active_agent"}, !.active_agent = t] :
           t \in OverrideTargets \cup {Null} }
  \cup { [EmptyUpdate EXCEPT !.keys = {"messages"}, !.messages = <<role>>] }
  \cup ( IF role = CODE_REVIEWER
         THEN { [EmptyUpdate EXCEPT
                   !.keys = {"agentStates"},
                   !.agentStates[CODE_REVIEWER] = ReviewState("false", i)] :
                  i \in IssueTypes }
         ELSE {} )

\* createHandoffTool(targetAgentRole)(state, reason)
createHandoffTool(targetAgentRole, S) ==
  [ EmptyUpdate EXCEPT
      !.keys = {"active_agent", "handoff_history"},
      !.active_agent = targetAgentRole,
      !.handoff_history =
          Append(S.handoff_history,
                 [from_agent |-> S.active_agent, to_agent |-> targetAgentRole]) ]

\* the roles a handoff tool is created for
HandoffTargets == {TASK_DECOMPOSER, BACKEND_ENGINEER}

\* the partial updates of an execute function that hands off with a tool
handoffExecute(S) == { createHandoffTool(t, S) : t \in HandoffTargets }

\* the partial update of an execute function that returns the project's
\* identifying fields with values of its own
renamingExecute(S) ==
  { [EmptyUpdate EXCEPT !.keys = {"projectName"}, !.projectName = "renamed"],
    [EmptyUpdate EXCEPT !.keys = {"projectId", "projectDescription"},
                        !.projectId = "project-2",
                        !.projectDescription = ScenarioADescription] }

\* the backoff delay of executeWithRetry after the attempt-th failure
backoffDelay(attempt) == retryDelay * (2 ^ (attempt - 1))

(***************************************************************************)
(* State                                                                   *)
(***************************************************************************)
VARIABLES
  agents,            \* OrchestratorGraph.agents: role -> "none" | "default" | "custom" | "handoff" | "renaming"
  state,             \* OrchestratorGraph.state
  isRunning,         \* OrchestratorGraph.isRunning
  executionHistory,  \* OrchestratorGraph.executionHistory
  events,            \* what the graph has emitted (EventEmitter.emit)
  projectEvents,     \* what OrchestratorAgent.projectEmitter has emitted
  callsMade,         \* start requests so far
  regOps,            \* accepted addAgent / removeAgent calls so far
  pc,                \* position of each caller's execute / run call
  currentAgent,      \* run(): const currentAgent, per call
  attempt,           \* executeWithRetry: let attempt, per call
  waits,             \* executeWithRetry: the delays slept in the current call
  result,            \* the partial update the worker returned, per call
  errCode,           \* the AgentError code thrown into run()'s catch, per call
  terminalFailure,   \* handleExecutionError took its "mark as failed" branch
  orchStatus,        \* OrchestratorAgent.status
  projectStatus,     \* helios.projects.status of the project
  response,          \* outcome of the last pause / resume / addAgent / removeAgent request
  retryCount,        \* agents/BaseAgent retryCount.get(operationName) || 0
  retryPc,           \* position of the recursive executeWithRetry call
  retryCalls,        \* recursive executeWithRetry calls made so far
  opFails,           \* how often the operation of the current call fails before it succeeds
  opFailsLeft,       \* failures the operation still has to deliver
  callAttempts,      \* operation() invocations made by the current call
  callWaits,         \* the delays slept by the current call
  callOutcome,       \* how the current call ended
  routePc,           \* routeToNextAgent applied to a given state: position
  routeIn,           \* this.state when routeToNextAgent is entered
  routeReg,          \* this.agents when routeToNextAgent is entered
  routeOut,          \* this.state when routeToNextAgent returns
  mergePc,           \* executeAgent's merge applied to a given state: position
  mergeIn,           \* this.state before the merge
  mergeUpdates,      \* stateUpdates, the partial update merged
  mergeRole,         \* the role whose worker returned stateUpdates
  mergeOut,          \* this.state after the merge
  validation,        \* one validateAndCorrect call: arguments, locals, outcome
  stopping,          \* OrchestratorAgent.shutdown: position, agents shut down so far
  artifactStore,     \* helios.artifacts of the project and the save in progress
  backend            \* the state fields BackendEngineerAgent reads and writes

vars == <<agents, state, isRunning, executionHistory, events, projectEvents, callsMade,
          regOps, pc, currentAgent, attempt, waits, result, errCode,
          terminalFailure, orchStatus, projectStatus, response, retryCount,
          retryPc, retryCalls, opFails, opFailsLeft, callAttempts, callWaits,
          callOutcome, routePc, routeIn, routeReg, routeOut, mergePc, mergeIn,
          mergeUpdates, mergeRole, mergeOut, validation,
          stopping, artifactStore, backend>>

Event(type, role, success) == [type |-> type, role |-> role, success |-> success]

\* the callers whose run() is between "agent.execute called" and its return
Executing == {c \in Callers : pc[c] \in {"attempt", "backoff"}}

\* the graph, its callers and the agent's retry counter after
\* OrchestratorAgent.initialize has constructed the graph
GraphConstructed ==
  /\ agents = [r \in Roles |-> "default"]
  /\ \E d \in Descriptions : state = InitialState(d)
  /\ isRunning = FALSE
  /\ executionHistory = << >>
  /\ events = << >>
  /\ projectEvents = << >>
  /\ callsMade = 0
  /\ regOps = 0
  /\ pc = [c \in Callers |-> "idle"]
  /\ currentAgent = [c \in Callers |-> Null]
  /\ attempt = [c \in Callers |-> 0]
  /\ waits = [c \in Callers |-> << >>]
  /\ result = [c \in Callers |-> EmptyUpdate]
  /\ errCode = [c \in Callers |-> "none"]
  /\ terminalFailure = [c \in Callers |-> FALSE]
  /\ orchStatus = "IDLE"
  /\ projectStatus = "none"
  /\ response = "none"
  /\ retryCount = 0
  /\ retryPc = "idle"
  /\ retryCalls = 0
  /\ opFails = 0
  /\ opFailsLeft = 0
  /\ callAttempts = 0
  /\ callWaits = << >>
  /\ callOutcome = "none"

\* no state is held for a separate routing step
RouteIdle ==
  /\ routePc = "idle"
  /\ routeIn = << >>
  /\ routeReg = << >>
  /\ routeOut = << >>

\* no state is held for a separate merge
MergeIdle ==
  /\ mergePc = "idle"
  /\ mergeIn = << >>
  /\ mergeUpdates = << >>
  /\ mergeRole = Null
  /\ mergeOut = << >>

\* no validateAndCorrect call is followed
ValidateIdle == validation = << >>

\* OrchestratorAgent.shutdown has not been called
NotStopping ==
  stopping = [pc |-> "idle", fails |-> {}, invoked |-> {}, next |-> 1]

\* helios.artifacts holds no row of the project and no save is in progress
NoSaves ==
  artifactStore = [rows |-> {}, pc |-> "idle", path |-> "", saves |-> 0]

\* no BackendEngineerAgent is followed
BackendIdle == backend = << >>

\* none of the agents' helper methods is followed on its own
HelpersIdle == ValidateIdle /\ NotStopping /\ NoSaves /\ BackendIdle

\* the state after OrchestratorAgent.initialize has constructed the graph
Init == GraphConstructed /\ RouteIdle /\ MergeIdle /\ HelpersIdle


(***************************************************************************)
(* OrchestratorAgent: start, pause, resume                                 *)
(***************************************************************************)
\* OrchestratorAgent.execute up to the await of initializeProject
ExecuteStart(c) ==
  /\ pc[c] = "idle"
  /\ callsMade < MaxCalls
  /\ callsMade' = callsMade + 1
  /\ orchStatus' = "EXECUTING"
  /\ pc' = [pc EXCEPT ![c] = "initProject"]
  /\ UNCHANGED <<agents, state, isRunning, executionHistory, events,
                 projectEvents, regOps, currentAgent, attempt, waits, result,
                 errCode, terminalFailure, projectStatus, response,
                 retryCount, retryPc, retryCalls, opFails, opFailsLeft,
                 callAttempts, callWaits, callOutcome, routePc, routeIn,
                 routeReg, routeOut, mergePc, mergeIn, mergeUpdates,
                 mergeRole, mergeOut, validation, stopping, artifactStore,
                 backend>>

\* a run() without the isRunning guard
runAlwaysAccepted == TRUE

\* the guard at the top of OrchestratorGraph.run
runAccepted == ~isRunning

\* execute: project row written; graph.run() throws "Graph is already running"
\* before it touches anything
RunRejected(c) ==
  /\ pc[c] = "initProject"
  /\ ~runAccepted
  /\ projectStatus' = "active"
  /\ pc' = [pc EXCEPT ![c] = "rejected"]
  /\ UNCHANGED <<agents, state, isRunning, executionHistory, events,
                 projectEvents, callsMade, regOps, currentAgent, attempt,
                 waits, result, errCode, terminalFailure, orchStatus,
                 response, retryCount, retryPc, retryCalls, opFails,
                 opFailsLeft, callAttempts, callWaits, callOutcome, routePc,
                 routeIn, routeReg, routeOut, mergePc, mergeIn, mergeUpdates,
                 mergeRole, mergeOut, validation, stopping, artifactStore,
                 backend>>

\* execute: project row written; graph.run(initialAgent) up to the await of
\* initializeAgents
RunStart(c, initialAgent) ==
  /\ pc[c] = "initProject"
  /\ runAccepted
  /\ projectStatus' = "active"
  /\ isRunning' = TRUE
  /\ events' = Append(events, Event("execution:started", Null, FALSE))
  /\ state' = [state EXCEPT !.active_agent =
                 IF initialAgent # Null THEN initialAgent ELSE PROJECT_ANALYZER]
  /\ terminalFailure' = [terminalFailure EXCEPT ![c] = FALSE]
  /\ pc' = [pc EXCEPT ![c] = "init"]
  /\ UNCHANGED <<agents, executionHistory, projectEvents, callsMade, regOps,
                 currentAgent, attempt, waits, result, errCode, orchStatus,
                 response, retryCount, retryPc, retryCalls, opFails,
                 opFailsLeft, callAttempts, callWaits, callOutcome, routePc,
                 routeIn, routeReg, routeOut, mergePc, mergeIn, mergeUpdates,
                 mergeRole, mergeOut, validation, stopping, artifactStore,
                 backend>>

\* executeGraphAsync: run() returned normally
GraphCompleted(c) ==
  /\ pc[c] = "returned"
  /\ projectStatus' = "completed"
  /\ projectEvents' = Append(projectEvents, "completed")
  /\ orchStatus' = "COMPLETED"
  /\ pc' = [pc EXCEPT ![c] = "idle"]
  /\ UNCHANGED <<agents, state, isRunning, executionHistory, events,
                 callsMade, regOps, currentAgent, attempt, waits, result,
                 errCode, terminalFailure, response, retryCount, retryPc,
                 retryCalls, opFails, opFailsLeft, callAttempts, callWaits,
                 callOutcome, routePc, routeIn, routeReg, routeOut, mergePc,
                 mergeIn, mergeUpdates, mergeRole, mergeOut, validation,
                 stopping, artifactStore, backend>>

\* executeGraphAsync: run() threw
GraphFailed(c) ==
  /\ pc[c] = "rejected"
  /\ projectStatus' = "failed"
  /\ projectEvents' = Append(projectEvents, "failed")
  /\ orchStatus' = "ERROR"
  /\ pc' = [pc EXCEPT ![c] = "idle"]
  /\ UNCHANGED <<agents, state, isRunning, executionHistory, events,
                 callsMade, regOps, currentAgent, attempt, waits, result,
                 errCode, terminalFailure, response, retryCount, retryPc,
                 retryCalls, opFails, opFailsLeft, callAttempts, callWaits,
                 callOutcome, routePc, routeIn, routeReg, routeOut, mergePc,
                 mergeIn, mergeUpdates, mergeRole, mergeOut, validation,
                 stopping, artifactStore, backend>>

\* OrchestratorAgent.pauseExecution (this.graph is set)
pauseExecution ==
  /\ projectStatus' = "paused"
  /\ response' = "paused"
  /\ UNCHANGED <<agents, state, isRunning, executionHistory, events,
                 projectEvents, callsMade, regOps, pc, currentAgent, attempt,
                 waits, result, errCode, terminalFailure, orchStatus,
                 retryCount, retryPc, retryCalls, opFails, opFailsLeft,
                 callAttempts, callWaits, callOutcome, routePc, routeIn,
                 routeReg, routeOut, mergePc, mergeIn, mergeUpdates,
                 mergeRole, mergeOut, validation, stopping, artifactStore,
                 backend>>

\* OrchestratorAgent.resumeExecution
resumeExecution ==
  /\ IF orchStatus = "WAITING"
     THEN /\ projectStatus' = "active"
          /\ response' = "resumed"
     ELSE /\ response' = "No paused execution to resume"
          /\ UNCHANGED projectStatus
  /\ UNCHANGED <<agents, state, isRunning, executionHistory, events,
                 projectEvents, callsMade, regOps, pc, currentAgent, attempt,
                 waits, result, errCode, terminalFailure, orchStatus,
                 retryCount, retryPc, retryCalls, opFails, opFailsLeft,
                 callAttempts, callWaits, callOutcome, routePc, routeIn,
                 routeReg, routeOut, mergePc, mergeIn, mergeUpdates,
                 mergeRole, mergeOut, validation, stopping, artifactStore,
                 backend>>

(***************************************************************************)
(* OrchestratorGraph: registry                                             *)
(***************************************************************************)
\* the guard at the top of addAgent and removeAgent
registryOpen == ~isRunning

\* the roles addAgent is called with
CustomRoles == {PROJECT_ANALYZER}

\* the roles removeAgent is called with
RemovedRoles == {BACKEND_ENGINEER, FULLSTACK_ENGINEER}

\* OrchestratorGraph.addAgent with a custom execute function
addAgent(role) ==
  /\ regOps < MaxRegistryOps
  /\ ~state.completed          \* callers configure a graph that has work left
  /\ IF registryOpen
     THEN /\ agents' = [agents EXCEPT ![role] = "custom"]
          /\ events' = Append(events, Event("agent:added", role, FALSE))
          /\ regOps' = regOps + 1
          /\ UNCHANGED response
     ELSE /\ response' = "Cannot add agents while graph is running"
          /\ UNCHANGED <<agents, events, regOps>>
  /\ UNCHANGED <<state, isRunning, executionHistory, projectEvents, callsMade,
                 pc, currentAgent, attempt, waits, result, errCode,
                 terminalFailure, orchStatus, projectStatus, retryCount,
                 retryPc, retryCalls, opFails, opFailsLeft, callAttempts,
                 callWaits, callOutcome, routePc, routeIn, routeReg, routeOut,
                 mergePc, mergeIn, mergeUpdates, mergeRole, mergeOut,
                 validation, stopping, artifactStore, backend>>

\* the roles addAgent is called with for a worker that hands off with a tool
HandoffRoles == {FRONTEND_ENGINEER}

\* OrchestratorGraph.addAgent with an execute function that returns what a
\* handoff tool returns
addHandoffAgent(role) ==
  /\ regOps < MaxRegistryOps
  /\ ~state.completed          \* callers configure a graph that has work left
  /\ IF registryOpen
     THEN /\ agents' = [agents EXCEPT ![role] = "handoff"]
          /\ events' = Append(events, Event("agent:added", role, FALSE))
          /\ regOps' = regOps + 1
          /\ UNCHANGED response
     ELSE /\ response' = "Cannot add agents while graph is running"
          /\ UNCHANGED <<agents, events, regOps>>
  /\ UNCHANGED <<state, isRunning, executionHistory, projectEvents, callsMade,
                 pc, currentAgent, attempt, waits, result, errCode,
                 terminalFailure, orchStatus, projectStatus, retryCount,
                 retryPc, retryCalls, opFails, opFailsLeft, callAttempts,
                 callWaits, callOutcome, routePc, routeIn, routeReg, routeOut,
                 mergePc, mergeIn, mergeUpdates, mergeRole, mergeOut,
                 validation, stopping, artifactStore, backend>>

\* the roles addAgent is called with for a worker that returns project fields
RenamingRoles == {TASK_DECOMPOSER}

\* OrchestratorGraph.addAgent with an execute function that returns the
\* project's identifying fields
addRenamingAgent(role) ==
  /\ regOps < MaxRegistryOps
  /\ ~state.completed          \* callers configure a graph that has work left
  /\ IF registryOpen
     THEN /\ agents' = [agents EXCEPT ![role] = "renaming"]
          /\ events' = Append(events, Event("agent:added", role, FALSE))
          /\ regOps' = regOps + 1
          /\ UNCHANGED response
     ELSE /\ response' = "Cannot add agents while graph is running"
          /\ UNCHANGED <<agents, events, regOps>>
  /\ UNCHANGED <<state, isRunning, executionHistory, projectEvents, callsMade,
                 pc, currentAgent, attempt, waits, result, errCode,
                 terminalFailure, orchStatus, projectStatus, retryCount,
                 retryPc, retryCalls, opFails, opFailsLeft, callAttempts,
                 callWaits, callOutcome, routePc, routeIn, routeReg, routeOut,
                 mergePc, mergeIn, mergeUpdates, mergeRole, mergeOut,
                 validation, stopping, artifactStore, backend>>

\* OrchestratorGraph.removeAgent
removeAgent(role) ==
  /\ regOps < MaxRegistryOps
  /\ ~state.completed          \* callers configure a graph that has work left
  /\ IF registryOpen
     THEN /\ agents[role] # "none"
          /\ agents' = [agents EXCEPT ![role] = "none"]
          /\ events' = Append(events, Event("agent:removed", role, FALSE))
          /\ regOps' = regOps + 1
          /\ UNCHANGED response
     ELSE /\ response' = "Cannot remove agents while graph is running"
          /\ UNCHANGED <<agents, events, regOps>>
  /\ UNCHANGED <<state, isRunning, executionHistory, projectEvents, callsMade,
                 pc, currentAgent, attempt, waits, result, errCode,
                 terminalFailure, orchStatus, projectStatus, retryCount,
                 retryPc, retryCalls, opFails, opFailsLeft, callAttempts,
                 callWaits, callOutcome, routePc, routeIn, routeReg, routeOut,
                 mergePc, mergeIn, mergeUpdates, mergeRole, mergeOut,
                 validation, stopping, artifactStore, backend>>

(***************************************************************************)
(* OrchestratorGraph.run: the main loop                                    *)
(***************************************************************************)
\* a history entry that records every execution as successful
HistoryEntryAlwaysSuccess(agent, success, error) ==
  [agent |-> agent, success |-> TRUE, error |-> error]

\* run(): this.executionHistory.push({agent, success, error})
HistoryEntry(agent, success, error) ==
  [agent |-> agent, success |-> success, error |-> error]

ErrorRecord(code, role) == [code |-> code, role |-> role]

\* run(): await this.initializeAgents() resolved
InitializeAgentsDone(c) ==
  /\ pc[c] = "init"
  /\ pc' = [pc EXCEPT ![c] = "loop"]
  /\ UNCHANGED <<agents, state, isRunning, executionHistory, events,
                 projectEvents, callsMade, regOps, currentAgent, attempt,
                 waits, result, errCode, terminalFailure, orchStatus,
                 projectStatus, response, retryCount, retryPc, retryCalls,
                 opFails, opFailsLeft, callAttempts, callWaits, callOutcome,
                 routePc, routeIn, routeReg, routeOut, mergePc, mergeIn,
                 mergeUpdates, mergeRole, mergeOut, validation, stopping,
                 artifactStore, backend>>

\* the while condition of run()
loopCondition(S) == ~S.completed /\ S.active_agent # Null

\* loop iteration whose executeAgent finds a worker: agent.execute is called
ExecuteAgent(c) ==
  /\ pc[c] = "loop"
  /\ loopCondition(state)
  /\ Len(executionHistory) < MaxHistory
  /\ agents[state.active_agent] # "none"
  /\ currentAgent' = [currentAgent EXCEPT ![c] = state.active_agent]
  /\ events' = Append(events, Event("agent:executing", state.active_agent, FALSE))
  /\ attempt' = [attempt EXCEPT ![c] = 1]
  /\ waits' = [waits EXCEPT ![c] = << >>]
  /\ pc' = [pc EXCEPT ![c] = "attempt"]
  /\ UNCHANGED <<agents, state, isRunning, executionHistory, projectEvents,
                 callsMade, regOps, result, errCode, terminalFailure,
                 orchStatus, projectStatus, response, retryCount, retryPc,
                 retryCalls, opFails, opFailsLeft, callAttempts, callWaits,
                 callOutcome, routePc, routeIn, routeReg, routeOut, mergePc,
                 mergeIn, mergeUpdates, mergeRole, mergeOut, validation,
                 stopping, artifactStore, backend>>

\* loop iteration whose executeAgent throws AGENT_NOT_FOUND; run() records the
\* failure and handleExecutionError pushes the error before awaiting logError
AgentNotFound(c) ==
  /\ pc[c] = "loop"
  /\ loopCondition(state)
  /\ Len(executionHistory) < MaxHistory
  /\ agents[state.active_agent] = "none"
  /\ currentAgent' = [currentAgent EXCEPT ![c] = state.active_agent]
  /\ errCode' = [errCode EXCEPT ![c] = "AGENT_NOT_FOUND"]
  /\ executionHistory' =
       Append(executionHistory,
              HistoryEntry(state.active_agent, FALSE, "AGENT_NOT_FOUND"))
  /\ state' = [state EXCEPT !.errors =
                 Append(@, ErrorRecord("AGENT_NOT_FOUND", state.active_agent))]
  /\ pc' = [pc EXCEPT ![c] = "logError"]
  /\ UNCHANGED <<agents, isRunning, events, projectEvents, callsMade, regOps,
                 attempt, waits, result, terminalFailure, orchStatus,
                 projectStatus, response, retryCount, retryPc, retryCalls,
                 opFails, opFailsLeft, callAttempts, callWaits, callOutcome,
                 routePc, routeIn, routeReg, routeOut, mergePc, mergeIn,
                 mergeUpdates, mergeRole, mergeOut, validation, stopping,
                 artifactStore, backend>>

\* executeWithRetry: operation() resolved
AttemptSucceeds(c) ==
  /\ pc[c] = "attempt"
  /\ \E upd \in ( CASE agents[currentAgent[c]] = "custom" ->
                         customExecute(currentAgent[c])
                    [] agents[currentAgent[c]] = "handoff" ->
                         handoffExecute(state)
                    [] agents[currentAgent[c]] = "renaming" ->
                         renamingExecute(state)
                    [] OTHER ->
                         {performRoleSpecificExecution(currentAgent[c], state)} ) :
       result' = [result EXCEPT ![c] = upd]
  /\ pc' = [pc EXCEPT ![c] = "merge"]
  /\ UNCHANGED <<agents, state, isRunning, executionHistory, events,
                 projectEvents, callsMade, regOps, currentAgent, attempt,
                 waits, errCode, terminalFailure, orchStatus, projectStatus,
                 response, retryCount, retryPc, retryCalls, opFails,
                 opFailsLeft, callAttempts, callWaits, callOutcome, routePc,
                 routeIn, routeReg, routeOut, mergePc, mergeIn, mergeUpdates,
                 mergeRole, mergeOut, validation, stopping, artifactStore,
                 backend>>

\* executeWithRetry: attempt < this.maxRetries, so another attempt follows
retryAllowed(a) == a < maxRetries

\* executeWithRetry: operation() rejected
AttemptFails(c) ==
  /\ pc[c] = "attempt"
  /\ IF retryAllowed(attempt[c])
     THEN /\ waits' = [waits EXCEPT ![c] = Append(@, backoffDelay(attempt[c]))]
          /\ pc' = [pc EXCEPT ![c] = "backoff"]
          /\ UNCHANGED errCode
     ELSE /\ errCode' = [errCode EXCEPT ![c] = "MAX_RETRIES_EXCEEDED"]
          /\ pc' = [pc EXCEPT ![c] = "executeError"]
          /\ UNCHANGED waits
  /\ UNCHANGED <<agents, state, isRunning, executionHistory, events,
                 projectEvents, callsMade, regOps, currentAgent, attempt,
                 result, terminalFailure, orchStatus, projectStatus, response,
                 retryCount, retryPc, retryCalls, opFails, opFailsLeft,
                 callAttempts, callWaits, callOutcome, routePc, routeIn,
                 routeReg, routeOut, mergePc, mergeIn, mergeUpdates,
                 mergeRole, mergeOut, validation, stopping, artifactStore,
                 backend>>

\* executeWithRetry: the backoff timer fired
BackoffDone(c) ==
  /\ pc[c] = "backoff"
  /\ attempt' = [attempt EXCEPT ![c] = @ + 1]
  /\ pc' = [pc EXCEPT ![c] = "attempt"]
  /\ UNCHANGED <<agents, state, isRunning, executionHistory, events,
                 projectEvents, callsMade, regOps, currentAgent, waits,
                 result, errCode, terminalFailure, orchStatus, projectStatus,
                 response, retryCount, retryPc, retryCalls, opFails,
                 opFailsLeft, callAttempts, callWaits, callOutcome, routePc,
                 routeIn, routeReg, routeOut, mergePc, mergeIn, mergeUpdates,
                 mergeRole, mergeOut, validation, stopping, artifactStore,
                 backend>>

\* the catch of AgentNode.execute: whatever was thrown is replaced
agentNodeErrorCode(code) == "EXECUTION_FAILED"

\* AgentNode.execute rethrows; executeAgent emits agent:error; run() records the
\* failure and handleExecutionError pushes the error before awaiting logError
ExecuteError(c) ==
  /\ pc[c] = "executeError"
  /\ errCode' = [errCode EXCEPT ![c] = agentNodeErrorCode(@)]
  /\ events' = Append(events, Event("agent:error", currentAgent[c], FALSE))
  /\ executionHistory' =
       Append(executionHistory,
              HistoryEntry(currentAgent[c], FALSE, agentNodeErrorCode(errCode[c])))
  /\ state' = [state EXCEPT !.errors =
                 Append(@, ErrorRecord(agentNodeErrorCode(errCode[c]),
                                       currentAgent[c]))]
  /\ pc' = [pc EXCEPT ![c] = "logError"]
  /\ UNCHANGED <<agents, isRunning, projectEvents, callsMade, regOps,
                 currentAgent, attempt, waits, result, terminalFailure,
                 orchStatus, projectStatus, response, retryCount, retryPc,
                 retryCalls, opFails, opFailsLeft, callAttempts, callWaits,
                 callOutcome, routePc, routeIn, routeReg, routeOut, mergePc,
                 mergeIn, mergeUpdates, mergeRole, mergeOut, validation,
                 stopping, artifactStore, backend>>

\* handleExecutionError after logError: the recovery decision
HandleExecutionError(c) ==
  /\ pc[c] = "logError"
  /\ state' = recover(state, currentAgent[c], errCode[c], agents)
  /\ terminalFailure' =
       [terminalFailure EXCEPT
          ![c] = ~canRecover(currentAgent[c], errCode[c], agents)]
  /\ pc' = [pc EXCEPT ![c] = "loop"]
  /\ UNCHANGED <<agents, isRunning, executionHistory, events, projectEvents,
                 callsMade, regOps, currentAgent, attempt, waits, result,
                 errCode, orchStatus, projectStatus, response, retryCount,
                 retryPc, retryCalls, opFails, opFailsLeft, callAttempts,
                 callWaits, callOutcome, routePc, routeIn, routeReg, routeOut,
                 mergePc, mergeIn, mergeUpdates, mergeRole, mergeOut,
                 validation, stopping, artifactStore, backend>>

\* executeAgent after agent.execute resolved: merge, store the role's substate,
\* emit; run() then records the successful execution
MergeUpdates(c) ==
  /\ pc[c] = "merge"
  /\ state' = storeAgentState(updateState(state, result[c]), result[c],
                              currentAgent[c])
  /\ events' = events \o << Event("state:updated", currentAgent[c], TRUE),
                            Event("agent:completed", currentAgent[c], TRUE) >>
  /\ executionHistory' =
       Append(executionHistory, HistoryEntry(currentAgent[c], TRUE, "none"))
  /\ pc' = [pc EXCEPT ![c] = "route"]
  /\ UNCHANGED <<agents, isRunning, projectEvents, callsMade, regOps,
                 currentAgent, attempt, waits, result, errCode,
                 terminalFailure, orchStatus, projectStatus, response,
                 retryCount, retryPc, retryCalls, opFails, opFailsLeft,
                 callAttempts, callWaits, callOutcome, routePc, routeIn,
                 routeReg, routeOut, mergePc, mergeIn, mergeUpdates,
                 mergeRole, mergeOut, validation, stopping, artifactStore,
                 backend>>

\* run(): await this.routeToNextAgent()
RouteToNextAgent(c) ==
  /\ pc[c] = "route"
  /\ state' = routeToNextAgent(state)
  /\ events' = IF state.nextAgent # Null THEN events
               ELSE Append(events, Event("routing:decided",
                                         routeToNextAgent(state).active_agent,
                                         routeToNextAgent(state).completed))
  /\ pc' = [pc EXCEPT ![c] = "loop"]
  /\ UNCHANGED <<agents, isRunning, executionHistory, projectEvents,
                 callsMade, regOps, currentAgent, attempt, waits, result,
                 errCode, terminalFailure, orchStatus, projectStatus,
                 response, retryCount, retryPc, retryCalls, opFails,
                 opFailsLeft, callAttempts, callWaits, callOutcome, routePc,
                 routeIn, routeReg, routeOut, mergePc, mergeIn, mergeUpdates,
                 mergeRole, mergeOut, validation, stopping, artifactStore,
                 backend>>

\* the while condition is false: finalizeExecution starts (await logFinalState)
LoopExit(c) ==
  /\ pc[c] = "loop"
  /\ ~loopCondition(state)
  /\ pc' = [pc EXCEPT ![c] = "finalize"]
  /\ UNCHANGED <<agents, state, isRunning, executionHistory, events,
                 projectEvents, callsMade, regOps, currentAgent, attempt,
                 waits, result, errCode, terminalFailure, orchStatus,
                 projectStatus, response, retryCount, retryPc, retryCalls,
                 opFails, opFailsLeft, callAttempts, callWaits, callOutcome,
                 routePc, routeIn, routeReg, routeOut, mergePc, mergeIn,
                 mergeUpdates, mergeRole, mergeOut, validation, stopping,
                 artifactStore, backend>>

\* OrchestratorGraph.generateExecutionSummary
generateExecutionSummary(S, hist) ==
  [ completed |-> S.completed,
    agentsExecuted |-> Len(hist),
    successfulExecutions |-> Cardinality({i \in 1..Len(hist) : hist[i].success}),
    failedExecutions |-> Cardinality({i \in 1..Len(hist) : ~hist[i].success}),
    errors |-> Len(S.errors) ]

\* finalizeExecution stores the summary; the finally block clears isRunning and
\* awaits shutdownAgents
FinalizeExecution(c) ==
  /\ pc[c] = "finalize"
  /\ state' = [state EXCEPT !.finalOutput =
                 << generateExecutionSummary(state, executionHistory) >>]
  /\ isRunning' = FALSE
  /\ pc' = [pc EXCEPT ![c] = "shutdown"]
  /\ UNCHANGED <<agents, executionHistory, events, projectEvents, callsMade,
                 regOps, currentAgent, attempt, waits, result, errCode,
                 terminalFailure, orchStatus, projectStatus, response,
                 retryCount, retryPc, retryCalls, opFails, opFailsLeft,
                 callAttempts, callWaits, callOutcome, routePc, routeIn,
                 routeReg, routeOut, mergePc, mergeIn, mergeUpdates,
                 mergeRole, mergeOut, validation, stopping, artifactStore,
                 backend>>

\* the finally block after shutdownAgents: execution:completed, then run() returns
ExecutionCompleted(c) ==
  /\ pc[c] = "shutdown"
  /\ events' = Append(events, Event("execution:completed", Null, state.completed))
  /\ pc' = [pc EXCEPT ![c] = "returned"]
  /\ UNCHANGED <<agents, state, isRunning, executionHistory, projectEvents,
                 callsMade, regOps, currentAgent, attempt, waits, result,
                 errCode, terminalFailure, orchStatus, projectStatus,
                 response, retryCount, retryPc, retryCalls, opFails,
                 opFailsLeft, callAttempts, callWaits, callOutcome, routePc,
                 routeIn, routeReg, routeOut, mergePc, mergeIn, mergeUpdates,
                 mergeRole, mergeOut, validation, stopping, artifactStore,
                 backend>>

\* the initial agents a caller passes to run(); Null is "no argument"
InitialAgents == {Null}

\* one step of caller c's start request and of the run() call it makes
RunStep(c) ==
  \/ ExecuteStart(c)
  \/ \E a \in InitialAgents : RunStart(c, a)
  \/ InitializeAgentsDone(c)
  \/ ExecuteAgent(c)
  \/ AgentNotFound(c)
  \/ AttemptSucceeds(c)
  \/ AttemptFails(c)
  \/ BackoffDone(c)
  \/ ExecuteError(c)
  \/ HandleExecutionError(c)
  \/ MergeUpdates(c)
  \/ RouteToNextAgent(c)
  \/ LoopExit(c)
  \/ FinalizeExecution(c)
  \/ ExecutionCompleted(c)
  \/ GraphCompleted(c)

RegistryStep ==
  \/ \E role \in CustomRoles : addAgent(role)
  \/ \E role \in RemovedRoles : removeAgent(role)

\* the engine driven by one caller, with registry changes around its runs
Next ==
  \/ RunStep(1)
  \/ RegistryStep

Spec == Init /\ [][Next]_vars

\* the same, with pause and resume requests
ControlNext ==
  \/ RunStep(1)
  \/ RegistryStep
  \/ pauseExecution
  \/ resumeExecution

ControlSpec == Init /\ [][ControlNext]_vars

\* the engine driven by concurrent callers
ConcurrentNext ==
  \/ \E c \in Callers : RunStep(c)
  \/ \E c \in Callers : RunRejected(c)
  \/ \E c \in Callers : GraphFailed(c)
  \/ RegistryStep

ConcurrentSpec == Init /\ [][ConcurrentNext]_vars

\* the engine driven by one caller, with workers that use the handoff tools
\* or return the project's identifying fields
HandoffNext ==
  \/ RunStep(1)
  \/ RegistryStep
  \/ \E role \in HandoffRoles : addHandoffAgent(role)
  \/ \E role \in RenamingRoles : addRenamingAgent(role)

HandoffSpec == Init /\ [][HandoffNext]_vars

(***************************************************************************)
(* agents/BaseAgent.executeWithRetry, the recursive version with the       *)
(* retryCount map, driven for one operation name                           *)
(***************************************************************************)
\* a caller invokes executeWithRetry(operation, operationName); the operation
\* fails k times and then succeeds
RetryCall(k) ==
  /\ retryPc = "idle"
  /\ retryCalls < MaxRetryCalls
  /\ retryCalls' = retryCalls + 1
  /\ opFails' = k
  /\ opFailsLeft' = k
  /\ callAttempts' = 0
  /\ callWaits' = << >>
  /\ callOutcome' = "none"
  /\ retryPc' = "operation"
  /\ UNCHANGED <<agents, state, isRunning, executionHistory, events,
                 projectEvents, callsMade, regOps, pc, currentAgent, attempt,
                 waits, result, errCode, terminalFailure, orchStatus,
                 projectStatus, response, retryCount, routePc, routeIn,
                 routeReg, routeOut, mergePc, mergeIn, mergeUpdates,
                 mergeRole, mergeOut, validation, stopping, artifactStore,
                 backend>>

\* try { result = await operation(); this.retryCount.delete(operationName) }
RetryOperationSucceeds ==
  /\ retryPc = "operation"
  /\ opFailsLeft = 0
  /\ callAttempts' = callAttempts + 1
  /\ retryCount' = 0
  /\ callOutcome' = "success"
  /\ retryPc' = "idle"
  /\ UNCHANGED <<agents, state, isRunning, executionHistory, events,
                 projectEvents, callsMade, regOps, pc, currentAgent, attempt,
                 waits, result, errCode, terminalFailure, orchStatus,
                 projectStatus, response, retryCalls, opFails, opFailsLeft,
                 callWaits, routePc, routeIn, routeReg, routeOut, mergePc,
                 mergeIn, mergeUpdates, mergeRole, mergeOut, validation,
                 stopping, artifactStore, backend>>

\* catch: attempts < this.config.maxRetries
retryBudgetLeft(attempts) == attempts < maxRetries

\* catch (error): count and sleep, or rethrow the operation's error
RetryOperationFails ==
  /\ retryPc = "operation"
  /\ opFailsLeft > 0
  /\ opFailsLeft' = opFailsLeft - 1
  /\ callAttempts' = callAttempts + 1
  /\ IF retryBudgetLeft(retryCount)
     THEN /\ retryCount' = retryCount + 1
          /\ callWaits' = Append(callWaits, retryDelay * (2 ^ retryCount))
          /\ retryPc' = "sleep"
          /\ UNCHANGED callOutcome
     ELSE /\ callOutcome' = "operation error"
          /\ retryPc' = "idle"
          /\ UNCHANGED <<retryCount, callWaits>>
  /\ UNCHANGED <<agents, state, isRunning, executionHistory, events,
                 projectEvents, callsMade, regOps, pc, currentAgent, attempt,
                 waits, result, errCode, terminalFailure, orchStatus,
                 projectStatus, response, retryCalls, opFails, routePc,
                 routeIn, routeReg, routeOut, mergePc, mergeIn, mergeUpdates,
                 mergeRole, mergeOut, validation, stopping, artifactStore,
                 backend>>

\* await this.sleep(delay) resolved: return this.executeWithRetry(...)
RetrySleepDone ==
  /\ retryPc = "sleep"
  /\ retryPc' = "operation"
  /\ UNCHANGED <<agents, state, isRunning, executionHistory, events,
                 projectEvents, callsMade, regOps, pc, currentAgent, attempt,
                 waits, result, errCode, terminalFailure, orchStatus,
                 projectStatus, response, retryCount, retryCalls, opFails,
                 opFailsLeft, callAttempts, callWaits, callOutcome, routePc,
                 routeIn, routeReg, routeOut, mergePc, mergeIn, mergeUpdates,
                 mergeRole, mergeOut, validation, stopping, artifactStore,
                 backend>>

RetryNext ==
  \/ \E k \in 0..MaxOpFails : RetryCall(k)
  \/ RetryOperationSucceeds
  \/ RetryOperationFails
  \/ RetrySleepDone

RetrySpec == Init /\ [][RetryNext]_vars

(***************************************************************************)
(* routeToNextAgent on its own: the routing step applied to the states a   *)
(* run can hand it                                                         *)
(***************************************************************************)
FrontBackDescription == <<"Build", "a", "Frontend", "and", "Backend">>
HyphenDescription == <<"A", "Full-Stack", "shop">>
FrontendDescription == <<"Frontend", "only">>

\* the descriptions routing is examined on
RouteDescriptions ==
  Descriptions \cup {FrontBackDescription, HyphenDescription, FrontendDescription}

\* what agentStates may hold for the CodeReviewer
ReviewStates ==
  { NoAgentState, UndefAgentState, ReviewState("true", "undefined") }
  \cup { ReviewState("false", i) : i \in IssueTypes \cup {"undefined"} }

\* the states routeToNextAgent is entered with: a role has just executed and
\* its update has been merged
RouteInputs ==
  { [InitialState(d) EXCEPT !.active_agent = r,
                            !.nextAgent = n,
                            !.agentStates[CODE_REVIEWER] = rv,
                            !.agentStates[FULLSTACK_ENGINEER] = fs] :
      d \in RouteDescriptions, r \in Roles \cup {Null},
      n \in OverrideTargets \cup {Null}, rv \in ReviewStates,
      fs \in {NoAgentState, UndefAgentState} }

RoutingInit ==
  /\ GraphConstructed
  /\ state = InitialState(PlainDescription)
  /\ MergeIdle
  /\ HelpersIdle
  /\ routePc = "input"
  /\ routeIn \in RouteInputs
  /\ routeReg = agents
  /\ routeOut = routeIn

\* await this.routeToNextAgent()
RouteApply ==
  /\ routePc = "input"
  /\ routeReg' = agents
  /\ routeOut' = routeToNextAgent(routeIn)
  /\ routePc' = "routed"
  /\ UNCHANGED <<agents, state, isRunning, executionHistory, events,
                 projectEvents, callsMade, regOps, pc, currentAgent, attempt,
                 waits, result, errCode, terminalFailure, orchStatus,
                 projectStatus, response, retryCount, retryPc, retryCalls,
                 opFails, opFailsLeft, callAttempts, callWaits, callOutcome,
                 routeIn, mergePc, mergeIn, mergeUpdates, mergeRole, mergeOut,
                 validation, stopping, artifactStore, backend>>

RoutingNext ==
  \/ RouteApply
  \/ RegistryStep

RoutingSpec == RoutingInit /\ [][RoutingNext]_vars

(***************************************************************************)
(* executeAgent's merge on its own: updateState and the agentStates        *)
(* handling applied to the partial updates a worker can return             *)
(***************************************************************************)
\* the sequences a state or a partial update holds in messages, tasks, errors
SeqValues == { << >>, <<"a">>, <<"b", "a">> }

HandoffValues ==
  { << >>, << [from_agent |-> PROJECT_ANALYZER, to_agent |-> TASK_DECOMPOSER] >> }

ArtifactMaps ==
  { NoArtifacts,
    [NoArtifacts EXCEPT !["src/app.ts"] = "v1"],
    [NoArtifacts EXCEPT !["src/app.ts"] = "v2", !["README.md"] = "v1"] }

\* the roles whose worker returns the update
MergeRoles == {BACKEND_ENGINEER, CODE_REVIEWER}

AgentStateMaps ==
  { [r \in Roles |-> NoAgentState],
    [[r \in Roles |-> NoAgentState] EXCEPT
       ![CODE_REVIEWER] = ReviewState("false", "frontend")],
    [[r \in Roles |-> NoAgentState] EXCEPT
       ![BACKEND_ENGINEER] = ReviewState("true", "undefined"),
       ![CODE_REVIEWER] = ReviewState("true", "undefined")] }

\* the states a merge starts from
MergeStates ==
  { [InitialState(PlainDescription) EXCEPT
       !.active_agent = BACKEND_ENGINEER,
       !.messages = m, !.tasks = m, !.errors = e,
       !.handoff_history = hh, !.artifacts = a, !.agentStates = s] :
      m \in {<< >>, <<"a">>}, e \in {<< >>, <<"a">>}, hh \in HandoffValues,
      a \in ArtifactMaps, s \in AgentStateMaps }

\* the key sets of the partial updates
MergeKeySets ==
  { {}, {"messages", "tasks", "errors"}, {"artifacts"}, {"agentStates"},
    {"handoff_history"}, {"projectName"}, UpdateKeys \ {"nextAgent", "completed"} }

\* the partial updates merged: hand-built ones and the handoff tool's
MergeUpdateValues(S) ==
  { [EmptyUpdate EXCEPT
       !.keys = ks, !.projectId = S.projectId, !.projectName = n,
       !.projectDescription = S.projectDescription,
       !.active_agent = S.active_agent,
       !.messages = m, !.tasks = m, !.errors = m,
       !.handoff_history = hh, !.artifacts = a, !.agentStates = s] :
      ks \in MergeKeySets, n \in {S.projectName, "renamed"}, m \in SeqValues,
      hh \in HandoffValues, a \in ArtifactMaps, s \in AgentStateMaps }
  \cup { createHandoffTool(FRONTEND_ENGINEER, S) }

MergeInit ==
  /\ GraphConstructed
  /\ state = InitialState(PlainDescription)
  /\ RouteIdle
  /\ HelpersIdle
  /\ mergePc = "input"
  /\ mergeIn \in MergeStates
  /\ mergeUpdates \in MergeUpdateValues(mergeIn)
  /\ mergeRole \in MergeRoles
  /\ mergeOut = mergeIn

\* executeAgent: this.updateState(stateUpdates), then the agentStates handling
MergeApply ==
  /\ mergePc = "input"
  /\ mergeOut' = storeAgentState(updateState(mergeIn, mergeUpdates),
                                 mergeUpdates, mergeRole)
  /\ mergePc' = "merged"
  /\ UNCHANGED <<agents, state, isRunning, executionHistory, events,
                 projectEvents, callsMade, regOps, pc, currentAgent, attempt,
                 waits, result, errCode, terminalFailure, orchStatus,
                 projectStatus, response, retryCount, retryPc, retryCalls,
                 opFails, opFailsLeft, callAttempts, callWaits, callOutcome,
                 routePc, routeIn, routeReg, routeOut, mergeIn, mergeUpdates,
                 mergeRole, validation, stopping, artifactStore, backend>>

MergeNext == MergeApply

MergeSpec == MergeInit /\ [][MergeNext]_vars

(***************************************************************************)
(* run() followed for its control state only: the loop reads completed,    *)
(* active_agent, nextAgent, the description, the review and the agents     *)
(* Map; the pushes to errors and executionHistory and the agent events do  *)
(* not influence it and are not recorded here, so that a loop that never   *)
(* ends shows as a cycle of states                                         *)
(***************************************************************************)
\* the agents Maps a caller can set up with addAgent and removeAgent before a
\* run: any set of roles, each with an execute function that returns {}
QuietRegistries == [Roles -> {"custom", "none"}]

\* addAgent / removeAgent calls that leave the graph with the chosen workers
ConfigureRegistry ==
  /\ regOps < MaxRegistryOps
  /\ registryOpen
  /\ callsMade = 0
  /\ \E reg \in QuietRegistries : agents' = reg
  /\ regOps' = regOps + 1
  /\ UNCHANGED <<state, isRunning, executionHistory, events, projectEvents,
                 callsMade, pc, currentAgent, attempt, waits, result, errCode,
                 terminalFailure, orchStatus, projectStatus, response,
                 retryCount, retryPc, retryCalls, opFails, opFailsLeft,
                 callAttempts, callWaits, callOutcome, routePc, routeIn,
                 routeReg, routeOut, mergePc, mergeIn, mergeUpdates,
                 mergeRole, mergeOut, validation, stopping, artifactStore,
                 backend>>

\* one loop iteration whose worker resolves with {}: merge, then routing
QuietIterationSucceeds(c) ==
  /\ pc[c] = "loop"
  /\ loopCondition(state)
  /\ agents[state.active_agent] = "custom"
  /\ currentAgent' = [currentAgent EXCEPT ![c] = state.active_agent]
  /\ state' = routeToNextAgent(
                storeAgentState(updateState(state, EmptyUpdate), EmptyUpdate,
                                state.active_agent))
  /\ UNCHANGED <<agents, isRunning, executionHistory, events, projectEvents,
                 callsMade, regOps, pc, attempt, waits, result, errCode,
                 terminalFailure, orchStatus, projectStatus, response,
                 retryCount, retryPc, retryCalls, opFails, opFailsLeft,
                 callAttempts, callWaits, callOutcome, routePc, routeIn,
                 routeReg, routeOut, mergePc, mergeIn, mergeUpdates,
                 mergeRole, mergeOut, validation, stopping, artifactStore,
                 backend>>

\* one loop iteration whose worker rejects on every attempt: AgentNode
\* rethrows, handleExecutionError decides
QuietIterationFails(c) ==
  /\ pc[c] = "loop"
  /\ loopCondition(state)
  /\ agents[state.active_agent] = "custom"
  /\ currentAgent' = [currentAgent EXCEPT ![c] = state.active_agent]
  /\ errCode' = [errCode EXCEPT ![c] = agentNodeErrorCode("MAX_RETRIES_EXCEEDED")]
  /\ state' = recover(state, state.active_agent,
                      agentNodeErrorCode("MAX_RETRIES_EXCEEDED"), agents)
  /\ UNCHANGED <<agents, isRunning, executionHistory, events, projectEvents,
                 callsMade, regOps, pc, attempt, waits, result,
                 terminalFailure, orchStatus, projectStatus, response,
                 retryCount, retryPc, retryCalls, opFails, opFailsLeft,
                 callAttempts, callWaits, callOutcome, routePc, routeIn,
                 routeReg, routeOut, mergePc, mergeIn, mergeUpdates,
                 mergeRole, mergeOut, validation, stopping, artifactStore,
                 backend>>

\* one loop iteration whose executeAgent throws AGENT_NOT_FOUND
QuietAgentNotFound(c) ==
  /\ pc[c] = "loop"
  /\ loopCondition(state)
  /\ agents[state.active_agent] = "none"
  /\ currentAgent' = [currentAgent EXCEPT ![c] = state.active_agent]
  /\ errCode' = [errCode EXCEPT ![c] = "AGENT_NOT_FOUND"]
  /\ state' = recover(state, state.active_agent, "AGENT_NOT_FOUND", agents)
  /\ UNCHANGED <<agents, isRunning, executionHistory, events, projectEvents,
                 callsMade, regOps, pc, attempt, waits, result,
                 terminalFailure, orchStatus, projectStatus, response,
                 retryCount, retryPc, retryCalls, opFails, opFailsLeft,
                 callAttempts, callWaits, callOutcome, routePc, routeIn,
                 routeReg, routeOut, mergePc, mergeIn, mergeUpdates,
                 mergeRole, mergeOut, validation, stopping, artifactStore,
                 backend>>

\* run() is called on a graph that has been set up with such workers
QuietRunStart(c) ==
  /\ agents \in QuietRegistries
  /\ \E a \in InitialAgents : RunStart(c, a)

\* the steps of a started run(); each worker invocation returns or throws
RunProgress(c) ==
  \/ QuietRunStart(c)
  \/ InitializeAgentsDone(c)
  \/ QuietIterationSucceeds(c)
  \/ QuietIterationFails(c)
  \/ QuietAgentNotFound(c)
  \/ LoopExit(c)
  \/ FinalizeExecution(c)
  \/ ExecutionCompleted(c)
  \/ GraphCompleted(c)

TerminationNext ==
  \/ ConfigureRegistry
  \/ ExecuteStart(1)
  \/ RunProgress(1)

\* awaited promises settle: a started run keeps taking its steps
TerminationSpec ==
  Init /\ [][TerminationNext]_vars /\ WF_vars(RunProgress(1))

(***************************************************************************)
(* agents/BaseAgent.validateAndCorrect, one call followed on its own       *)
(***************************************************************************)
\* the calls examined: maxAttempts, and for the output passed in and each
\* output the corrector returns whether the validator finds it valid
ValidationCalls ==
  { [ pc |-> "loop", maxAttempts |-> m, valid |-> v, attempts |-> 0,
      validatorCalls |-> 0, correctorCalls |-> 0, outcome |-> "none" ] :
      m \in 0..MaxAttemptsArg, v \in [1..(MaxAttemptsArg + 1) -> BOOLEAN] }

ValidateInit ==
  /\ GraphConstructed
  /\ state = InitialState(PlainDescription)
  /\ RouteIdle
  /\ MergeIdle
  /\ NotStopping
  /\ NoSaves
  /\ BackendIdle
  /\ validation \in ValidationCalls

\* the validator's verdict on currentOutput
currentOutputValid(v) == v.valid[v.correctorCalls + 1]

\* while (attempts < maxAttempts): validator(currentOutput) is valid; return
ValidationPasses ==
  /\ validation.pc = "loop"
  /\ validation.attempts < validation.maxAttempts
  /\ currentOutputValid(validation)
  /\ validation' = [validation EXCEPT !.validatorCalls = @ + 1,
                                      !.outcome = "returned",
                                      !.pc = "done"]
  /\ UNCHANGED <<agents, state, isRunning, executionHistory, events,
                 projectEvents, callsMade, regOps, pc, currentAgent, attempt,
                 waits, result, errCode, terminalFailure, orchStatus,
                 projectStatus, response, retryCount, retryPc, retryCalls,
                 opFails, opFailsLeft, callAttempts, callWaits, callOutcome,
                 routePc, routeIn, routeReg, routeOut, mergePc, mergeIn,
                 mergeUpdates, mergeRole, mergeOut, stopping, artifactStore,
                 backend>>

\* while (attempts < maxAttempts): validator(currentOutput) is not valid;
\* attempts++, then the corrector is awaited or the error is thrown
ValidationFails ==
  /\ validation.pc = "loop"
  /\ validation.attempts < validation.maxAttempts
  /\ ~currentOutputValid(validation)
  /\ validation' =
       IF validation.attempts + 1 < validation.maxAttempts
       THEN [validation EXCEPT !.validatorCalls = @ + 1,
                               !.attempts = @ + 1,
                               !.pc = "correct"]
       ELSE [validation EXCEPT !.validatorCalls = @ + 1,
                               !.attempts = @ + 1,
                               !.outcome = "thrown",
                               !.pc = "done"]
  /\ UNCHANGED <<agents, state, isRunning, executionHistory, events,
                 projectEvents, callsMade, regOps, pc, currentAgent, attempt,
                 waits, result, errCode, terminalFailure, orchStatus,
                 projectStatus, response, retryCount, retryPc, retryCalls,
                 opFails, opFailsLeft, callAttempts, callWaits, callOutcome,
                 routePc, routeIn, routeReg, routeOut, mergePc, mergeIn,
                 mergeUpdates, mergeRole, mergeOut, stopping, artifactStore,
                 backend>>

\* currentOutput = await corrector(currentOutput, validation.errors)
CorrectorDone ==
  /\ validation.pc = "correct"
  /\ validation' = [validation EXCEPT !.correctorCalls = @ + 1, !.pc = "loop"]
  /\ UNCHANGED <<agents, state, isRunning, executionHistory, events,
                 projectEvents, callsMade, regOps, pc, currentAgent, attempt,
                 waits, result, errCode, terminalFailure, orchStatus,
                 projectStatus, response, retryCount, retryPc, retryCalls,
                 opFails, opFailsLeft, callAttempts, callWaits, callOutcome,
                 routePc, routeIn, routeReg, routeOut, mergePc, mergeIn,
                 mergeUpdates, mergeRole, mergeOut, stopping, artifactStore,
                 backend>>

\* the while condition is false: return currentOutput
ValidationLoopExit ==
  /\ validation.pc = "loop"
  /\ ~(validation.attempts < validation.maxAttempts)
  /\ validation' = [validation EXCEPT !.outcome = "returned", !.pc = "done"]
  /\ UNCHANGED <<agents, state, isRunning, executionHistory, events,
                 projectEvents, callsMade, regOps, pc, currentAgent, attempt,
                 waits, result, errCode, terminalFailure, orchStatus,
                 projectStatus, response, retryCount, retryPc, retryCalls,
                 opFails, opFailsLeft, callAttempts, callWaits, callOutcome,
                 routePc, routeIn, routeReg, routeOut, mergePc, mergeIn,
                 mergeUpdates, mergeRole, mergeOut, stopping, artifactStore,
                 backend>>

ValidateNext ==
  \/ ValidationPasses
  \/ ValidationFails
  \/ CorrectorDone
  \/ ValidationLoopExit

ValidateSpec == ValidateInit /\ [][ValidateNext]_vars

(***************************************************************************)
(* OrchestratorAgent.shutdown, called while the graph exists               *)
(***************************************************************************)
\* the insertion order of the agents Map (initializeDefaultAgents)
RoleOrder ==
  << PROJECT_ANALYZER, TASK_DECOMPOSER, FRONTEND_ENGINEER, BACKEND_ENGINEER,
     FULLSTACK_ENGINEER, DEVOPS_ENGINEER, QA_ENGINEER, CODE_REVIEWER,
     DOCUMENTATION_WRITER >>

\* the sets of workers whose shutdown() rejects
ShutdownFailures == SUBSET {TASK_DECOMPOSER, BACKEND_ENGINEER}

\* the positions of the Map's iterator that still hold a registered agent
agentsLeft(from) == { i \in from..Len(RoleOrder) : agents[RoleOrder[i]] # "none" }

\* shutdown(): the timer is cleared and the iteration over the agents begins
ShutdownStart ==
  /\ stopping.pc = "idle"
  /\ \E F \in ShutdownFailures :
       stopping' = [pc |-> "agents", fails |-> F, invoked |-> {}, next |-> 1]
  /\ UNCHANGED <<agents, state, isRunning, executionHistory, events,
                 projectEvents, callsMade, regOps, pc, currentAgent, attempt,
                 waits, result, errCode, terminalFailure, orchStatus,
                 projectStatus, response, retryCount, retryPc, retryCalls,
                 opFails, opFailsLeft, callAttempts, callWaits, callOutcome,
                 routePc, routeIn, routeReg, routeOut, mergePc, mergeIn,
                 mergeUpdates, mergeRole, mergeOut, validation, artifactStore,
                 backend>>

\* for (const agent of agents.values()) await agent.shutdown(): one agent; a
\* rejection leaves the loop and shutdown()
ShutdownAgent ==
  /\ stopping.pc = "agents"
  /\ agentsLeft(stopping.next) # {}
  /\ LET i == CHOOSE j \in agentsLeft(stopping.next) :
                 \A k \in agentsLeft(stopping.next) : j <= k
     IN  stopping' =
           [stopping EXCEPT
              !.invoked = @ \cup {RoleOrder[i]},
              !.next = i + 1,
              !.pc = IF RoleOrder[i] \in stopping.fails THEN "thrown" ELSE "agents"]
  /\ UNCHANGED <<agents, state, isRunning, executionHistory, events,
                 projectEvents, callsMade, regOps, pc, currentAgent, attempt,
                 waits, result, errCode, terminalFailure, orchStatus,
                 projectStatus, response, retryCount, retryPc, retryCalls,
                 opFails, opFailsLeft, callAttempts, callWaits, callOutcome,
                 routePc, routeIn, routeReg, routeOut, mergePc, mergeIn,
                 mergeUpdates, mergeRole, mergeOut, validation, artifactStore,
                 backend>>

\* the iteration is over: removeAllListeners and super.shutdown()
ShutdownFinished ==
  /\ stopping.pc = "agents"
  /\ agentsLeft(stopping.next) = {}
  /\ stopping' = [stopping EXCEPT !.pc = "done"]
  /\ orchStatus' = "COMPLETED"
  /\ UNCHANGED <<agents, state, isRunning, executionHistory, events,
                 projectEvents, callsMade, regOps, pc, currentAgent, attempt,
                 waits, result, errCode, terminalFailure, projectStatus,
                 response, retryCount, retryPc, retryCalls, opFails,
                 opFailsLeft, callAttempts, callWaits, callOutcome, routePc,
                 routeIn, routeReg, routeOut, mergePc, mergeIn, mergeUpdates,
                 mergeRole, mergeOut, validation, artifactStore, backend>>

\* the engine with one caller and a shutdown request at any moment
ShutdownNext ==
  \/ RunStep(1)
  \/ RegistryStep
  \/ ShutdownStart
  \/ ShutdownAgent
  \/ ShutdownFinished

ShutdownSpec == Init /\ [][ShutdownNext]_vars

(***************************************************************************)
(* The artifact saves of the workers of one project against                *)
(* helios.artifacts; every db.query is a statement of its own              *)
(***************************************************************************)
\* file.path of the generated files
FilePaths == {"src/server.ts", "src/routes.ts", "tests/api.test.ts"}

\* the stored artifacts of the project for one file path
rowsOf(rows, path) == { r \in rows : r.file_path = path }

\* UPDATE helios.artifacts SET is_latest = false WHERE project_id, file_path
markNotLatest(rows, path) ==
  { IF r.file_path = path THEN [r EXCEPT !.is_latest = FALSE] ELSE r : r \in rows }

\* CONSTRAINT unique_artifact_path_version UNIQUE (project_id, file_path, version)
uniquePathVersion(rows, row) ==
  \A r \in rows : ~(r.file_path = row.file_path /\ r.version = row.version)

\* manage_artifact_versions_trigger, AFTER INSERT WHEN (NEW.is_latest = true)
manage_artifact_versions(rows, new) ==
  { IF r.file_path = new.file_path /\ r.id # new.id
      THEN [r EXCEPT !.is_latest = FALSE] ELSE r : r \in rows }

\* the row both INSERT statements write: a fresh id, version 1, is_latest true
newArtifact(store, path) ==
  [id |-> store.saves + 1, file_path |-> path, version |-> 1, is_latest |-> TRUE]

\* INSERT INTO helios.artifacts: the row is stored and the trigger runs, or
\* the constraint rejects the statement and the table is as before
insertArtifact(rows, row) ==
  IF uniquePathVersion(rows, row)
    THEN manage_artifact_versions(rows \cup {row}, row)
    ELSE rows

\* BackendEngineerAgent.saveArtifact, first statement: the UPDATE
SaveArtifactUpdate ==
  /\ artifactStore.pc = "idle"
  /\ artifactStore.saves < MaxSaves
  /\ \E path \in FilePaths :
       artifactStore' =
         [artifactStore EXCEPT
            !.rows = markNotLatest(@, path),
            !.pc = "insert",
            !.path = path]
  /\ UNCHANGED <<agents, state, isRunning, executionHistory, events,
                 projectEvents, callsMade, regOps, pc, currentAgent, attempt,
                 waits, result, errCode, terminalFailure, orchStatus,
                 projectStatus, response, retryCount, retryPc, retryCalls,
                 opFails, opFailsLeft, callAttempts, callWaits, callOutcome,
                 routePc, routeIn, routeReg, routeOut, mergePc, mergeIn,
                 mergeUpdates, mergeRole, mergeOut, validation, stopping,
                 backend>>

\* BackendEngineerAgent.saveArtifact, second statement: the INSERT; a rejected
\* INSERT is logged and rethrown
SaveArtifactInsert ==
  /\ artifactStore.pc = "insert"
  /\ artifactStore' =
       [artifactStore EXCEPT
          !.rows = insertArtifact(@, newArtifact(artifactStore, artifactStore.path)),
          !.pc = "idle",
          !.path = "",
          !.saves = @ + 1]
  /\ UNCHANGED <<agents, state, isRunning, executionHistory, events,
                 projectEvents, callsMade, regOps, pc, currentAgent, attempt,
                 waits, result, errCode, terminalFailure, orchStatus,
                 projectStatus, response, retryCount, retryPc, retryCalls,
                 opFails, opFailsLeft, callAttempts, callWaits, callOutcome,
                 routePc, routeIn, routeReg, routeOut, mergePc, mergeIn,
                 mergeUpdates, mergeRole, mergeOut, validation, stopping,
                 backend>>

\* QAEngineerAgent.saveTestArtifact: the INSERT alone
SaveTestArtifact ==
  /\ artifactStore.pc = "idle"
  /\ artifactStore.saves < MaxSaves
  /\ \E path \in FilePaths :
       artifactStore' =
         [artifactStore EXCEPT
            !.rows = insertArtifact(@, newArtifact(artifactStore, path)),
            !.saves = @ + 1]
  /\ UNCHANGED <<agents, state, isRunning, executionHistory, events,
                 projectEvents, callsMade, regOps, pc, currentAgent, attempt,
                 waits, result, errCode, terminalFailure, orchStatus,
                 projectStatus, response, retryCount, retryPc, retryCalls,
                 opFails, opFailsLeft, callAttempts, callWaits, callOutcome,
                 routePc, routeIn, routeReg, routeOut, mergePc, mergeIn,
                 mergeUpdates, mergeRole, mergeOut, validation, stopping,
                 backend>>

ArtifactNext ==
  \/ SaveArtifactUpdate
  \/ SaveArtifactInsert
  \/ SaveTestArtifact

ArtifactSpec == Init /\ [][ArtifactNext]_vars

(***************************************************************************)
(* BackendEngineerAgent.execute with a text-generation client, followed    *)
(* by the merge of its partial and the routing step                        *)
(***************************************************************************)
TaskIds == {"task-1", "task-2"}

\* a Task as far as findNextTask reads it
TaskRecords ==
  [id : TaskIds,
   assignedAgent : {BACKEND_ENGINEER, FRONTEND_ENGINEER},
   status : {"pending", "completed"},
   dependencies : SUBSET TaskIds]

\* state.tasks: one or two tasks with distinct ids
TaskLists ==
  { << t >> : t \in TaskRecords } \cup
  { << t, u >> : t \in { x \in TaskRecords : x.id = "task-1" },
                 u \in { x \in TaskRecords : x.id = "task-2" } }

taskIdsOf(tasks) == { tasks[i].id : i \in 1..Len(tasks) }

\* the state when BackendEngineer becomes active: the tasks, the current task
\* as TaskDecomposer or an earlier worker left it, or none
BackendStates ==
  { [tasks |-> ts, currentTaskId |-> cur, current_task |-> cur,
     active_agent |-> BACKEND_ENGINEER, processed |-> {}] :
      ts \in TaskLists, cur \in TaskIds \cup {Null} }

BackendInit ==
  /\ GraphConstructed
  /\ state = InitialState(PlainDescription)
  /\ RouteIdle
  /\ MergeIdle
  /\ ValidateIdle
  /\ NotStopping
  /\ NoSaves
  /\ backend \in { b \in BackendStates :
                     b.current_task \in taskIdsOf(b.tasks) \cup {Null} }

\* the id of the first of the filtered tasks, or Null
firstTask(found) == IF found = << >> THEN Null ELSE found[1].id

\* findNextTask(state): the partial it returns; task = Null when the partial
\* holds nextAgent alone
findNextTask(S) ==
  LET dependent(t) ==
        /\ S.currentTaskId \in t.dependencies
        /\ t.status = "pending"
        /\ t.assignedAgent = BACKEND_ENGINEER
      pendingBackend(t) ==
        /\ t.assignedAgent = BACKEND_ENGINEER
        /\ t.status = "pending"
      backendTask == firstTask(SelectSeq(S.tasks, dependent))
      pendingTask == firstTask(SelectSeq(S.tasks, pendingBackend))
  IN  IF backendTask # Null
        THEN [task |-> backendTask, nextAgent |-> BACKEND_ENGINEER]
        ELSE IF pendingTask # Null
          THEN [task |-> pendingTask, nextAgent |-> BACKEND_ENGINEER]
          ELSE [task |-> Null, nextAgent |-> FRONTEND_ENGINEER]

\* execute(state) on a current task: the files are saved, the task's row is
\* updated in the database, findNextTask's partial is returned; updateState
\* stores its fields and routeToNextAgent follows nextAgent
BackendExecutesTask ==
  /\ backend # << >>
  /\ backend.active_agent = BACKEND_ENGINEER
  /\ backend.current_task # Null
  /\ LET next == findNextTask(backend)
     IN  backend' =
           [backend EXCEPT
              !.currentTaskId = IF next.task # Null THEN next.task ELSE @,
              !.current_task = IF next.task # Null THEN next.task ELSE @,
              !.active_agent = next.nextAgent,
              !.processed = @ \cup {backend.current_task}]
  /\ UNCHANGED <<agents, state, isRunning, executionHistory, events,
                 projectEvents, callsMade, regOps, pc, currentAgent, attempt,
                 waits, result, errCode, terminalFailure, orchStatus,
                 projectStatus, response, retryCount, retryPc, retryCalls,
                 opFails, opFailsLeft, callAttempts, callWaits, callOutcome,
                 routePc, routeIn, routeReg, routeOut, mergePc, mergeIn,
                 mergeUpdates, mergeRole, mergeOut, validation, stopping,
                 artifactStore>>

\* execute(state) without a current task: { nextAgent: FRONTEND_ENGINEER }
BackendWithoutTask ==
  /\ backend # << >>
  /\ backend.active_agent = BACKEND_ENGINEER
  /\ backend.current_task = Null
  /\ backend' = [backend EXCEPT !.active_agent = FRONTEND_ENGINEER]
  /\ UNCHANGED <<agents, state, isRunning, executionHistory, events,
                 projectEvents, callsMade, regOps, pc, currentAgent, attempt,
                 waits, result, errCode, terminalFailure, orchStatus,
                 projectStatus, response, retryCount, retryPc, retryCalls,
                 opFails, opFailsLeft, callAttempts, callWaits, callOutcome,
                 routePc, routeIn, routeReg, routeOut, mergePc, mergeIn,
                 mergeUpdates, mergeRole, mergeOut, validation, stopping,
                 artifactStore>>

BackendNext ==
  \/ BackendExecutesTask
  \/ BackendWithoutTask

BackendSpec == BackendInit /\ [][BackendNext]_vars

(***************************************************************************)
(* Properties                                                              *)
(***************************************************************************)
\* the caller's run() is between its isRunning = true and its finally block
InRun(c) == pc[c] \in {"init", "loop", "attempt", "backoff", "executeError",
                        "logError", "merge", "route", "finalize"}

\* the roles of the execution history, in order
ExecutedRoles == [i \in 1..Len(executionHistory) |-> executionHistory[i].agent]

DefaultRegistry == \A r \in Roles : agents[r] = "default"

IsPrefix(s, t) == Len(s) <= Len(t) /\ \A i \in 1..Len(s) : s[i] = t[i]

\* the role sequence of Scenario A
ScenarioARoles ==
  << PROJECT_ANALYZER, TASK_DECOMPOSER, FULLSTACK_ENGINEER, DEVOPS_ENGINEER,
     QA_ENGINEER, CODE_REVIEWER, DOCUMENTATION_WRITER >>

\* routeToNextAgent has been applied to a state without an override whose
\* active role is r
RoutedFrom(r) ==
  routePc = "routed" /\ routeIn.nextAgent = Null /\ routeIn.active_agent = r

\* the lower-cased description holds the keyword
Mentions(S, kw) == includes(toLowerCase(S.projectDescription), kw)

\* C1: at every loop-iteration boundary of run() and when run() returns, a
\* completed shared record has no active role, whatever the workers returned,
\* after failure and recovery steps, and for a run started again on a graph
\* whose previous run has finished.
C1_CompletedHasNoActiveAgent ==
  \A c \in Callers :
    pc[c] \in {"loop", "returned"} =>
      (state.completed => state.active_agent = Null)

\* C2: when the merged state carries an override (nextAgent) after a
\* successful worker invocation, the routing step makes exactly that role the
\* active role, whatever the current role and the static table say, clears the
\* override in the same step, and does not take the table's decision (no
\* routing:decided event, completed untouched).
C2_OverrideWins ==
  [][ \A c \in Callers :
        (pc[c] = "route" /\ pc'[c] = "loop" /\ state.nextAgent # Null) =>
          /\ state'.active_agent = state.nextAgent
          /\ state'.nextAgent = Null
          /\ state'.completed = state.completed
          /\ events' = events ]_vars

\* C2 witness: TaskDecomposer succeeded on the fullstack description, where the
\* table chooses FullstackEngineer, and its override made BackendEngineer active
C2_OverrideBeatsTable ==
  /\ pc[1] = "loop"
  /\ Len(executionHistory) = 2
  /\ executionHistory[2] = HistoryEntry(TASK_DECOMPOSER, TRUE, "none")
  /\ staticRoute([state EXCEPT !.active_agent = TASK_DECOMPOSER]).active_agent
       = FULLSTACK_ENGINEER
  /\ state.active_agent = BACKEND_ENGINEER
  /\ state.nextAgent = Null

\* C3: when a worker's execution has failed after its retries are exhausted,
\* the recovery step makes FullstackEngineer active for a failed
\* FrontendEngineer or BackendEngineer if it is registered and otherwise ends
\* the run, makes FrontendEngineer active for a failed FullstackEngineer, and
\* ends the run (completed, no active role) for every other role.
C3_RecoveryTable ==
  [][ \A c \in Callers :
        (pc[c] = "logError" /\ pc'[c] = "loop" /\ errCode[c] # "AGENT_NOT_FOUND") =>
          LET failed == currentAgent[c]
              ended == state'.completed /\ state'.active_agent = Null
              switched(r) == /\ state'.active_agent = r
                             /\ state'.completed = state.completed
          IN  /\ attempt[c] = maxRetries
              /\ failed \in {FRONTEND_ENGINEER, BACKEND_ENGINEER} =>
                   IF agents[FULLSTACK_ENGINEER] # "none"
                   THEN switched(FULLSTACK_ENGINEER) ELSE ended
              /\ failed = FULLSTACK_ENGINEER => switched(FRONTEND_ENGINEER)
              /\ failed \notin {FRONTEND_ENGINEER, BACKEND_ENGINEER,
                                FULLSTACK_ENGINEER} => ended ]_vars

\* C3 witness: BackendEngineer failed all its attempts and FullstackEngineer
\* took over
C3_BackendReplacedByFullstack ==
  /\ pc[1] = "loop"
  /\ Len(executionHistory) > 0
  /\ executionHistory[Len(executionHistory)] =
       HistoryEntry(BACKEND_ENGINEER, FALSE, "EXECUTION_FAILED")
  /\ Len(waits[1]) = maxRetries - 1
  /\ state.active_agent = FULLSTACK_ENGINEER
  /\ ~state.completed

\* C4: an executeWithRetry call whose operation fails k < maxRetries times and
\* then succeeds returns the success value and leaves the attempt counter of
\* the operation name reset; a call whose operation fails maxRetries times
\* raises a retry-exhausted error after exactly maxRetries attempts.
C4_RetryBound ==
  (retryPc = "idle" /\ retryCalls > 0) =>
    IF opFails < maxRetries
    THEN callOutcome = "success" /\ retryCount = 0
    ELSE callOutcome = "retry exhausted" /\ callAttempts = maxRetries

\* C5: a run that ended because a worker failed and no alternate role was
\* available is distinguishable from a completed one: a run-failed event was
\* emitted, the end-of-run event does not report success, and the orchestrator
\* does not record the project as completed.
C5_FailedRunIsNotCompleted ==
  \A c \in Callers :
    terminalFailure[c] =>
      /\ pc[c] = "returned" =>
           /\ \E i \in 1..Len(events) : events[i].type = "execution:failed"
           /\ ~events[Len(events)].success
      /\ pc[c] = "idle" => projectStatus # "completed"

\* C6: when the active role has no registered worker the run ends in terminal
\* failure: no alternate role is substituted and the run does not continue.
C6_RoleNotFoundEndsRun ==
  \A c \in Callers :
    ( /\ pc[c] = "loop"
      /\ Len(executionHistory) > 0
      /\ executionHistory[Len(executionHistory)].error = "AGENT_NOT_FOUND" ) =>
      (state.completed /\ state.active_agent = Null)

\* C7: once a pause request on a running project has been accepted, no
\* further worker invocation starts until the run is resumed.
C7_PausedRunStartsNoWorker ==
  [][ \A c \in Callers :
        (projectStatus = "paused" /\ pc[c] = "loop") => pc'[c] # "attempt" ]_vars

\* C8: a resume request issued on a run paused by an accepted pause request is
\* accepted and returns the run to Running.
C8_PausedRunResumes ==
  [][ (projectStatus = "paused" /\ (\E c \in Callers : InRun(c)) /\ resumeExecution) =>
        (response' = "resumed" /\ projectStatus' = "active") ]_vars

\* C9: under any interleaving of run() calls at most one call is inside the
\* engine's loop, so at most one worker execution is in progress; the running
\* flag is set exactly while a call is there; a run() arriving then is
\* rejected and changes neither the shared record nor the flag, and the
\* worker registry does not change while the flag is set.
C9_SingleRun ==
  /\ [](Cardinality({c \in Callers : InRun(c)}) <= 1)
  /\ [](Cardinality(Executing) <= 1)
  /\ [](isRunning <=> \E c \in Callers : InRun(c))
  /\ [][ \A c \in Callers :
           (isRunning /\ pc[c] = "initProject" /\ pc'[c] # "initProject") =>
             /\ pc'[c] = "rejected"
             /\ state' = state
             /\ isRunning' = isRunning
             /\ executionHistory' = executionHistory ]_vars
  /\ [][ isRunning => agents' = agents ]_vars

\* C9 witness: a second run() was rejected while the first one's worker is
\* executing
C9_RejectedDuringExecution ==
  \E c, d \in Callers :
    /\ pc[c] = "rejected"
    /\ pc[d] = "attempt"
    /\ isRunning

\* C10: a run on "Build a deployed fullstack chat app" with the default
\* workers, all of whose invocations succeed, executes Analyzer,
\* TaskDecomposer, FullstackEngineer, DevOpsEngineer, QAEngineer, CodeReviewer,
\* DocumentationWriter in this order, each once, and ends completed.
C10_ScenarioASequence ==
  ( /\ state.projectDescription = ScenarioADescription
    /\ DefaultRegistry
    /\ \A i \in 1..Len(executionHistory) : executionHistory[i].success ) =>
    /\ IsPrefix(ExecutedRoles, ScenarioARoles)
    /\ pc[1] = "returned" => (ExecutedRoles = ScenarioARoles /\ state.completed)

\* C11 (as stated): without an override the role after TaskDecomposer is
\* FullstackEngineer exactly when the description contains "fullstack" or
\* "full-stack", case-insensitively, and BackendEngineer otherwise.
C11_FullstackKeywordsOnly ==
  RoutedFrom(TASK_DECOMPOSER) =>
    routeOut.active_agent =
      IF Mentions(routeIn, "fullstack") \/ Mentions(routeIn, "full-stack")
      THEN FULLSTACK_ENGINEER ELSE BACKEND_ENGINEER

\* C11 (amended): without an override the role after TaskDecomposer is
\* FullstackEngineer exactly when the description, case-insensitively,
\* contains "fullstack" or "full-stack" or contains both "frontend" and
\* "backend", and BackendEngineer otherwise; nothing else of the record
\* changes.
C11_FullstackHeuristic ==
  RoutedFrom(TASK_DECOMPOSER) =>
    routeOut =
      [routeIn EXCEPT !.active_agent =
         IF \/ Mentions(routeIn, "fullstack")
            \/ Mentions(routeIn, "full-stack")
            \/ (Mentions(routeIn, "frontend") /\ Mentions(routeIn, "backend"))
         THEN FULLSTACK_ENGINEER ELSE BACKEND_ENGINEER]

\* C11 witness: a description written "Full-Stack" was routed from
\* TaskDecomposer to FullstackEngineer
C11_HyphenRoutedToFullstack ==
  /\ RoutedFrom(TASK_DECOMPOSER)
  /\ routeIn.projectDescription = HyphenDescription
  /\ routeOut.active_agent = FULLSTACK_ENGINEER

\* C12: without an override, after CodeReviewer a passed review leads to
\* DocumentationWriter; a failed review leads to FrontendEngineer for issue
\* type "frontend", BackendEngineer for "backend", and for any other issue
\* type to FullstackEngineer if a FullstackEngineer worker is registered and
\* to FrontendEngineer otherwise.
C12_ReviewRouting ==
  RoutedFrom(CODE_REVIEWER) =>
    LET review == routeIn.agentStates[CODE_REVIEWER]
    IN  /\ review.reviewPassed = "true" =>
             routeOut.active_agent = DOCUMENTATION_WRITER
        /\ review.reviewPassed = "false" =>
             routeOut.active_agent =
               CASE review.issueType = "frontend" -> FRONTEND_ENGINEER
                 [] review.issueType = "backend" -> BACKEND_ENGINEER
                 [] OTHER -> IF routeReg[FULLSTACK_ENGINEER] # "none"
                             THEN FULLSTACK_ENGINEER ELSE FRONTEND_ENGINEER

\* C13: without an override the unconditional rows of the table are applied
\* exactly: Analyzer -> TaskDecomposer, FrontendEngineer -> BackendEngineer,
\* DevOpsEngineer -> QAEngineer, QAEngineer -> CodeReviewer, and after
\* DocumentationWriter the run is completed with no active role; the result
\* depends on nothing but the current role.
C13_UnconditionalRows ==
  /\ RoutedFrom(PROJECT_ANALYZER) =>
       routeOut = [routeIn EXCEPT !.active_agent = TASK_DECOMPOSER]
  /\ RoutedFrom(FRONTEND_ENGINEER) =>
       routeOut = [routeIn EXCEPT !.active_agent = BACKEND_ENGINEER]
  /\ RoutedFrom(DEVOPS_ENGINEER) =>
       routeOut = [routeIn EXCEPT !.active_agent = QA_ENGINEER]
  /\ RoutedFrom(QA_ENGINEER) =>
       routeOut = [routeIn EXCEPT !.active_agent = CODE_REVIEWER]
  /\ RoutedFrom(DOCUMENTATION_WRITER) =>
       routeOut = [routeIn EXCEPT !.completed = TRUE, !.active_agent = Null]

\* C13 witness: the FrontendEngineer row was applied to a state whose
\* description and review would send other rows elsewhere
C13_FrontendRowApplied ==
  /\ RoutedFrom(FRONTEND_ENGINEER)
  /\ routeIn.projectDescription = ScenarioADescription
  /\ routeIn.agentStates[CODE_REVIEWER].reviewPassed = "false"
  /\ routeOut.active_agent = BACKEND_ENGINEER

\* C14: when the FrontendEngineer fails past its retry limit and no
\* FullstackEngineer worker is registered, the failure adds exactly one error
\* record, the recovery decision ends the run (completed, no active role)
\* without adding another, and no worker is invoked afterwards: the run
\* returns with the FrontendEngineer's failure as its last execution.
C14_FrontendFailureEndsRun ==
  /\ [][ \A c \in Callers :
           ( /\ pc[c] = "executeError" /\ pc'[c] # "executeError"
             /\ currentAgent[c] = FRONTEND_ENGINEER
             /\ agents[FULLSTACK_ENGINEER] = "none" ) =>
             state' = [state EXCEPT !.errors =
                         Append(@, ErrorRecord("EXECUTION_FAILED",
                                               FRONTEND_ENGINEER))] ]_vars
  /\ [][ \A c \in Callers :
           ( /\ pc[c] = "logError" /\ pc'[c] # "logError"
             /\ currentAgent[c] = FRONTEND_ENGINEER
             /\ errCode[c] = "EXECUTION_FAILED"
             /\ agents[FULLSTACK_ENGINEER] = "none" ) =>
             state' = [state EXCEPT !.completed = TRUE,
                                    !.active_agent = Null] ]_vars
  /\ [][ \A c \in Callers :
           ( /\ pc[c] \in {"loop", "finalize", "shutdown"}
             /\ currentAgent[c] = FRONTEND_ENGINEER
             /\ errCode[c] = "EXECUTION_FAILED"
             /\ agents[FULLSTACK_ENGINEER] = "none"
             /\ terminalFailure[c] ) =>
             /\ pc'[c] \in {"loop", "finalize", "shutdown", "returned"}
             /\ executionHistory' = executionHistory
             /\ state'.errors = state.errors
             /\ state'.completed /\ state'.active_agent = Null ]_vars

\* C14 witness: a run has returned after the FrontendEngineer used up its
\* attempts with no FullstackEngineer registered
C14_RunEndedByFrontendFailure ==
  \E c \in Callers :
    /\ pc[c] = "returned"
    /\ currentAgent[c] = FRONTEND_ENGINEER
    /\ attempt[c] = maxRetries
    /\ errCode[c] = "EXECUTION_FAILED"
    /\ agents[FULLSTACK_ENGINEER] = "none"
    /\ state.completed /\ state.active_agent = Null
    /\ executionHistory[Len(executionHistory)] =
         HistoryEntry(FRONTEND_ENGINEER, FALSE, "EXECUTION_FAILED")

C16_SequencesAppendOnly ==
  mergePc = "merged" =>
    /\ mergeOut.messages =
         IF "messages" \in mergeUpdates.keys
         THEN mergeIn.messages \o mergeUpdates.messages ELSE mergeIn.messages
    /\ mergeOut.tasks =
         IF "tasks" \in mergeUpdates.keys
         THEN mergeIn.tasks \o mergeUpdates.tasks ELSE mergeIn.tasks
    /\ mergeOut.errors =
         IF "errors" \in mergeUpdates.keys
         THEN mergeIn.errors \o mergeUpdates.errors ELSE mergeIn.errors
    /\ mergeOut.handoff_history =
         IF "handoff_history" \in mergeUpdates.keys
         THEN mergeIn.handoff_history \o mergeUpdates.handoff_history
         ELSE mergeIn.handoff_history

\* C17: the merge treats artifacts and the per-role substate as key-addressed
\* maps: a key present in the partial's map takes the incoming value, every
\* other key keeps its prior value and presence.
C17_MapsMergedByKey ==
  mergePc = "merged" =>
    /\ \A k \in ArtifactKeys :
         mergeOut.artifacts[k] =
           IF "artifacts" \in mergeUpdates.keys /\ mergeUpdates.artifacts[k] # "absent"
           THEN mergeUpdates.artifacts[k] ELSE mergeIn.artifacts[k]
    /\ \A r \in Roles :
         mergeOut.agentStates[r] =
           IF "agentStates" \in mergeUpdates.keys /\ mergeUpdates.agentStates[r].has
           THEN mergeUpdates.agentStates[r] ELSE mergeIn.agentStates[r]

\* C18: in every state of a run the project identity, name and description
\* of the shared record are the ones the run was created with, whatever the
\* workers return: no step changes them.
C18_ProjectIdentityImmutable ==
  [][ /\ state'.projectId = state.projectId
      /\ state'.projectName = state.projectName
      /\ state'.projectDescription = state.projectDescription ]_vars

\* C19: every change of the active role made by the routing step or the
\* recovery step appends exactly one handoff record, from the role that was
\* active to the new one, and leaves the earlier records as they were.
C19_TransitionCreatesHandoffRecord ==
  [][ \A c \in Callers :
        ( /\ pc[c] \in {"route", "logError"} /\ pc'[c] = "loop"
          /\ state'.active_agent # state.active_agent ) =>
          state'.handoff_history =
            Append(state.handoff_history,
                   [from_agent |-> state.active_agent,
                    to_agent |-> state'.active_agent]) ]_vars

\* C20: in a run without recovery branches every two consecutive handoff
\* records chain, also when workers produce the records with the handoff
\* tools while the routing step advances the active role.
C20_HandoffRecordsChain ==
  (\A i \in 1..Len(executionHistory) : executionHistory[i].success) =>
    \A i \in 1..(Len(state.handoff_history) - 1) :
      state.handoff_history[i].to_agent = state.handoff_history[i + 1].from_agent

C30_DefaultWorkerAddsOneMessage ==
  [][ \A c \in Callers :
        ( /\ pc[c] = "merge" /\ pc'[c] = "route"
          /\ agents[currentAgent[c]] = "default" ) =>
          /\ state'.messages = Append(state.messages, currentAgent[c])
          /\ state'.tasks = state.tasks
          /\ state'.errors = state.errors ]_vars

\* C26: run() terminates: when every invocation returns or throws, no worker
\* sets an override or the active role and no review fails, a run that has
\* entered its loop reaches completed = true, for every set of registered
\* roles and every pattern of failures.
C26_RunTerminates == (pc[1] = "loop") ~> state.completed

\* C27: every executeWithRetry call starts with the full retry budget,
\* whatever earlier calls with the same operation name did: a call gives up
\* only after it has attempted the operation at least maxRetries times.
C27_FreshBudgetPerCall ==
  (retryPc = "idle" /\ retryCalls > 0 /\ callOutcome # "success") =>
    callAttempts >= maxRetries


\* C25: validateAndCorrect is bounded for every maxAttempts: the validator is
\* called at most maxAttempts times and the corrector fewer times than that
\* (never when maxAttempts is 0), an output is returned only after the
\* validator accepted it, and the call throws only after maxAttempts rejected
\* validations.
C25_ValidateAndCorrectBounded ==
  /\ validation.validatorCalls <= validation.maxAttempts
  /\ validation.correctorCalls < validation.maxAttempts
       \/ validation.correctorCalls = 0
  /\ validation.outcome = "returned" =>
       /\ validation.validatorCalls = validation.correctorCalls + 1
       /\ currentOutputValid(validation)
  /\ validation.outcome = "thrown" =>
       /\ validation.validatorCalls = validation.maxAttempts
       /\ \A i \in 1..validation.validatorCalls : ~validation.valid[i]

\* C22: when the engine has been stopped, shutdown has been invoked on every
\* registered worker, also when the shutdown of an earlier worker failed.
C22_EveryWorkerShutDown ==
  stopping.pc \in {"done", "thrown"} =>
    \A r \in Roles : agents[r] # "none" => r \in stopping.invoked

\* C23: once a stop issued during a run has completed, no pending backoff
\* leads to another attempt of the operation and no worker invocation starts.
C23_StopCancelsBackoff ==
  [][ \A c \in Callers :
        stopping.pc = "done" =>
          /\ ~(pc[c] = "backoff" /\ pc'[c] = "attempt")
          /\ ~(pc[c] = "loop" /\ pc'[c] = "attempt") ]_vars

\* C28: a role that becomes active is executed before routing advances past
\* it: the routing step starts from the role that has just executed, and a
\* target role that the worker's update made active is still the active role
\* after the routing step, so it is the next role executed.
C28_ActiveRoleExecutedBeforeRouting ==
  [][ \A c \in Callers :
        (pc[c] = "route" /\ pc'[c] # "route") =>
          \/ state.active_agent = currentAgent[c]
          \/ state'.active_agent = state.active_agent ]_vars

C29_BackendMakesProgress ==
  [][ (backend.active_agent = BACKEND_ENGINEER
         /\ backend'.active_agent = BACKEND_ENGINEER) =>
        backend'.current_task \notin backend'.processed ]_vars

====
